---- MODULE Spec2Model ----
(***************************************************************************)
(* AstroWound-MEASURE: the calibration detector, the quality assessor and  *)
(* the measurement engine, as state machines.                              *)
(*                                                                         *)
(* Numbers.  The engines compute in IEEE doubles; the model computes in    *)
(* integers with these units:                                              *)
(*   - pixel coordinates: whole pixels;                                    *)
(*   - pixel distances and pixelsPerCm: hundredths (Math.sqrt is rounded   *)
(*     down to the hundredth, exact for axis-parallel segments);           *)
(*   - confidences, scores and thresholds in [0,1]: thousandths;           *)
(*   - angles of distortion: thousandths of a degree.                      *)
(* Comparisons against thresholds are done on exact integer numerators     *)
(* wherever the quantity is rational.                                      *)
(***************************************************************************)
EXTENDS Integers, Sequences, FiniteSets

VARIABLES
    \* CalibrationEngine.detectCalibration / manualCalibration
    cpc,            \* position of the running call
    frame,          \* what the marker detectors find in the captured frame
    rulerResult,    \* detectCalibration's local rulerResult
    circleResult,   \* detectCalibration's local circleResult
    gridResult,     \* detectCalibration's local gridResult
    calibration,    \* the CalibrationData the call returned
    evaluated,      \* the hypotheses the call has run, in order
    manualArgs,     \* the arguments of a manualCalibration call
    \* QualityCheckEngine
    qpc,            \* "ready", "checked" (a report was returned), "advised"
    thresholds,     \* this.thresholds
    image,          \* the ImageData given to runQualityChecks
    qcal,           \* the CalibrationData given to runQualityChecks
    report,         \* the QualityCheck it returned
    recommendations, \* what getRecommendations returned for the report
    \* MeasurementEngine.calculateMeasurements
    mpc,            \* "idle", "returned" or "threw"
    segmentation,   \* the SegmentationResult given to the call
    mcal,           \* the CalibrationData given to the call
    measurement,    \* the WoundMeasurement the call returned
    merror,         \* the message of the Error the call threw
    validation,     \* what validateMeasurement returned for the measurement
    \* WoundCapture and CameraModule (the capture pipeline)
    capture,        \* WoundCapture's state: showCamera, capturedImage, ...
    mounts,         \* CameraModule instances mounted so far; the last is current
    camera,         \* state of the current CameraModule instance
    previewImage,   \* useCaptureStore.previewImage: 0 (null) or a frame
    pendingInits,   \* instances whose initCamera awaits getUserMedia / play
    liveLoops,      \* the loops startLiveCalibrationDetection has started
    frames,         \* the frames captured so far and how far each has got
    saved,          \* the assessment saveAssessment last handed to addAssessment
    \* useAssessmentsStore and the analytics of the wound timeline
    hpc,            \* "idle", "loaded" or "rendered"
    assessments,    \* useAssessmentsStore.assessments
    analytics,      \* the WoundAnalytics the timeline shows
    \* WoundSegmentationEngine (the singleton)
    engine,         \* model, isLoading, isInitialized, initPromise
    runs,           \* the runs of _doInitialize and how far each has got
    calls,          \* the initialize() and segment() calls made so far
    \* the service worker
    swpc,           \* "installing" or "active"
    cache,          \* the URLs that have a response in the cache
    lastFetch       \* the last fetch event: request, network outcome, answer

calibVars == <<cpc, frame, rulerResult, circleResult, gridResult, calibration, evaluated, manualArgs>>
qualityVars == <<qpc, thresholds, image, qcal, report, recommendations>>
measureVars == <<mpc, segmentation, mcal, measurement, merror, validation>>
captureVars == <<capture, mounts, camera, previewImage, pendingInits, liveLoops, frames, saved>>
healingVars == <<hpc, assessments, analytics>>
engineVars == <<engine, runs, calls>>
serviceWorkerVars == <<swpc, cache, lastFetch>>

vars == <<calibVars, qualityVars, measureVars, captureVars, healingVars, engineVars, serviceWorkerVars>>

\* what the actions of one engine leave alone
nonCalibVars == <<qualityVars, measureVars, captureVars, healingVars, engineVars, serviceWorkerVars>>
nonQualityVars == <<calibVars, measureVars, captureVars, healingVars, engineVars, serviceWorkerVars>>
nonMeasureVars == <<calibVars, qualityVars, captureVars, healingVars, engineVars, serviceWorkerVars>>
nonCaptureVars == <<calibVars, qualityVars, measureVars, healingVars, engineVars, serviceWorkerVars>>
nonHealingVars == <<calibVars, qualityVars, measureVars, captureVars, engineVars, serviceWorkerVars>>
nonEngineVars == <<calibVars, qualityVars, measureVars, captureVars, healingVars, serviceWorkerVars>>
nonServiceWorkerVars == <<calibVars, qualityVars, measureVars, captureVars, healingVars, engineVars>>

----------------------------------------------------------------------------
(* Bounds of the model                                                     *)

\* most tick marks a frame's ruler profile shows
MaxTicks == 5
\* most accumulator peaks the circle transform scores in one frame
MaxCirclePeaks == 2
\* largest coordinate of a manually picked point, largest known distance (cm)
MaxManualCoord == 2
MaxDistanceCm == 3
\* size of the images given to the quality checks
ImageWidth == 4
ImageHeight == 3
\* most options one Partial<QualityThresholds> names
MaxNamedOptions == 1
\* most points of a segmentation contour
MaxContour == 4
\* size of the segmentation masks
MaskWidth == 2
MaskHeight == 2
\* most CameraModule mounts, initCamera calls and captured frames of a session
MaxMounts == 2
MaxInits == 2
MaxFrames == 2
\* requestAnimationFrame handles are told apart up to this many
MaxAnimationId == 2
\* the most assessments a wound has
MaxAssessments == 3
\* the most runs of _doInitialize and the most calls of the engine
MaxRuns == 2
MaxCalls == 2

----------------------------------------------------------------------------
(* Arithmetic helpers                                                      *)

Max(a, b) == IF a > b THEN a ELSE b
Min(a, b) == IF a < b THEN a ELSE b
Abs(a) == IF a < 0 THEN -a ELSE a

RECURSIVE ISqrtIter(_, _, _)
ISqrtIter(n, lo, hi) ==
    IF lo >= hi THEN lo
    ELSE LET mid == (lo + hi + 1) \div 2
         IN  IF mid * mid <= n THEN ISqrtIter(n, mid, hi) ELSE ISqrtIter(n, lo, mid - 1)

\* floor of the square root
ISqrt(n) == ISqrtIter(n, 0, IF n < 46340 THEN n ELSE 46340)

\* Math.sqrt(dx * dx + dy * dy), in hundredths of a pixel
Hypot(dx, dy) == ISqrt((dx * dx + dy * dy) * 10000)

RECURSIVE SumSeq(_)
SumSeq(s) == IF s = <<>> THEN 0 ELSE Head(s) + SumSeq(Tail(s))

RECURSIVE SumSquares(_)
SumSquares(s) == IF s = <<>> THEN 0 ELSE Head(s) * Head(s) + SumSquares(Tail(s))

\* mutant: ties keep the earlier element
Keep_TiesKeepFirst(field, a, b) == IF a[field] >= b[field] THEN a ELSE b

\* the reducer (a, b) => a[field] > b[field] ? a : b
Keep(field, a, b) == IF a[field] > b[field] THEN a ELSE b

\* Array.prototype.reduce with that reducer and no initial value, from acc on
RECURSIVE ReduceFrom(_, _, _)
ReduceFrom(field, acc, s) == IF s = <<>> THEN acc ELSE ReduceFrom(field, Keep(field, acc, Head(s)), Tail(s))

Point(px, py) == [x |-> px, y |-> py]

\* distances between consecutive points: the spacings loops of the engines
Spacings(points) == [i \in 1..(Len(points) - 1) |-> Hypot(points[i + 1].x - points[i].x, points[i + 1].y - points[i].y)]

\* n^2 times the variance of s (n = Len(s)): n * sum(s_i^2) - (sum s_i)^2
VarianceNumerator(s) == Len(s) * SumSquares(s) - SumSeq(s) * SumSeq(s)

----------------------------------------------------------------------------
(* CALIBRATION_SPECS                                                       *)

RulerTickSpacingCm == 1
RulerMinTickCount == 5
\* circle.diameterCm = 2.5, in tenths of a centimetre
CircleDiameterMm == 25
GridCellSizeCm == 1
GridMinCells == 4
\* the priority threshold 0.8 of detectCalibration
PriorityConfidence == 800

MarkerTypes == {"ruler", "circle", "qr", "grid"}

\* the value of a local that has not been assigned
NoResult == [detected |-> FALSE, pixelsPerCm |-> 0, confidence |-> 0, markerType |-> "none", referencePoints |-> <<>>]

createFailedCalibration(markerType) ==
    [detected |-> FALSE, pixelsPerCm |-> 0, confidence |-> 0, markerType |-> markerType, referencePoints |-> <<>>]

----------------------------------------------------------------------------
(* Ruler                                                                   *)

calculateAverageSpacing(points) ==
    IF Len(points) < 2 THEN 0
    ELSE SumSeq(Spacings(points)) \div (Len(points) - 1)

\* max(0, 1 - 2 cv), cv = stdDev / mean = sqrt(n^2 variance) / sum
calculateTickConfidence(ticks) ==
    IF Len(ticks) < 3 THEN 0
    ELSE LET spacings == Spacings(ticks)
             cv2000 == (2000 * ISqrt(VarianceNumerator(spacings))) \div SumSeq(spacings)
         IN  Max(0, 1000 - cv2000)

\* detectRuler from the parallel lines and tick marks found in the frame
detectRuler(f) ==
    IF f.parallelLines < 2 THEN createFailedCalibration("ruler")
    ELSE IF Len(f.ticks) < RulerMinTickCount THEN createFailedCalibration("ruler")
    ELSE [detected |-> TRUE,
          pixelsPerCm |-> calculateAverageSpacing(f.ticks) \div RulerTickSpacingCm,
          confidence |-> calculateTickConfidence(f.ticks),
          markerType |-> "ruler",
          referencePoints |-> f.ticks]

----------------------------------------------------------------------------
(* Circle                                                                  *)

\* the acceptance test of houghCircleTransform on the scored peaks
houghCircleTransform(peaks) == SelectSeq(peaks, LAMBDA c : c.circularity > 700)

detectCircle(f) ==
    LET circles == houghCircleTransform(f.circlePeaks)
    IN  IF Len(circles) = 0 THEN createFailedCalibration("circle")
        ELSE LET bestCircle == ReduceFrom("circularity", Head(circles), Tail(circles))
                 diameterPixels == bestCircle.radius * 2
             IN  [detected |-> TRUE,
                  pixelsPerCm |-> (diameterPixels * 100 * 10) \div CircleDiameterMm,
                  confidence |-> bestCircle.circularity,
                  markerType |-> "circle",
                  referencePoints |-> <<Point(bestCircle.centerX, bestCircle.centerY),
                                        Point(bestCircle.centerX + bestCircle.radius, bestCircle.centerY)>>]

----------------------------------------------------------------------------
(* Grid                                                                    *)

\* the comparators of the engine's sorts:
\*   "xy"     (a, b) => a.x - b.x || a.y - b.y
\*   "number" (a, b) => a - b
\*   "scan"   the order in which a y-outer, x-inner pixel loop meets points
\*   "capturedAt"  (a, b) => a.capturedAt.getTime() - b.capturedAt.getTime()
\*   "newestFirst" (a, b) => b.capturedAt.getTime() - a.capturedAt.getTime()
Before(order, a, b) ==
    CASE order = "xy" -> a.x < b.x \/ (a.x = b.x /\ a.y < b.y)
      [] order = "number" -> a < b
      [] order = "scan" -> a.y < b.y \/ (a.y = b.y /\ a.x < b.x)
      [] order = "capturedAt" -> a.capturedAt < b.capturedAt
      [] order = "newestFirst" -> b.capturedAt < a.capturedAt

RECURSIVE InsertSorted(_, _, _)
InsertSorted(order, e, s) ==
    IF s = <<>> THEN <<e>>
    ELSE IF Before(order, e, Head(s)) THEN <<e>> \o s
    ELSE <<Head(s)>> \o InsertSorted(order, e, Tail(s))

\* Array.prototype.sort: a stable ascending sort
RECURSIVE StableSort(_, _)
StableSort(order, s) ==
    IF s = <<>> THEN <<>>
    ELSE InsertSorted(order, s[Len(s)], StableSort(order, SubSeq(s, 1, Len(s) - 1)))

findGridPattern(corners) ==
    IF Len(corners) < 4 THEN <<>> ELSE StableSort("xy", corners)

\* the dx > 5 and dy > 5 spacings of consecutive grid points, in push order
RECURSIVE GridSpacings(_, _)
GridSpacings(gridPoints, i) ==
    IF i > Len(gridPoints) THEN <<>>
    ELSE LET dx == Abs(gridPoints[i].x - gridPoints[i - 1].x)
             dy == Abs(gridPoints[i].y - gridPoints[i - 1].y)
         IN  (IF dx > 5 THEN <<dx>> ELSE <<>>) \o (IF dy > 5 THEN <<dy>> ELSE <<>>)
                 \o GridSpacings(gridPoints, i + 1)

\* the median spacing, or 0 when no spacing exceeds 5 (spacings[...] || 0); whole pixels
calculateGridCellSize(gridPoints) ==
    LET spacings == StableSort("number", GridSpacings(gridPoints, 2))
    IN  IF spacings = <<>> THEN 0 ELSE spacings[(Len(spacings) \div 2) + 1]

calculateGridConfidence(gridPoints) ==
    IF Len(gridPoints) < 4 THEN 0 ELSE Min(1000, (Len(gridPoints) * 1000) \div 20)

detectGrid(f) ==
    LET gridPoints == findGridPattern(f.corners)
    IN  IF Len(gridPoints) < GridMinCells * 4 THEN createFailedCalibration("grid")
        ELSE [detected |-> TRUE,
              pixelsPerCm |-> (calculateGridCellSize(gridPoints) * 100) \div GridCellSizeCm,
              confidence |-> calculateGridConfidence(gridPoints),
              markerType |-> "grid",
              referencePoints |-> gridPoints]

----------------------------------------------------------------------------
(* detectCalibration and manualCalibration                                 *)

\* the test of each early return: detected && confidence > 0.8
Accepted(r) == r.detected /\ r.confidence > PriorityConfidence

\* results.reduce((a, b) => a.confidence > b.confidence ? a : b)
BestResult(results) == ReduceFrom("confidence", Head(results), Tail(results))

\* mutant: the known distance is not divided out
manualCalibration_IgnoresDistance(point1, point2, distanceCm) ==
    [detected |-> TRUE,
     pixelsPerCm |-> Hypot(point2.x - point1.x, point2.y - point1.y),
     confidence |-> 1000,
     markerType |-> "ruler",
     referencePoints |-> <<point1, point2>>]

manualCalibration(point1, point2, distanceCm) ==
    LET dx == point2.x - point1.x
        dy == point2.y - point1.y
        distancePixels == Hypot(dx, dy)
    IN  [detected |-> TRUE,
         pixelsPerCm |-> distancePixels \div distanceCm,
         confidence |-> 1000,
         markerType |-> "ruler",
         referencePoints |-> <<point1, point2>>]

----------------------------------------------------------------------------
(* QualityCheckEngine                                                      *)

OptionNames == {"minBlurScore", "minLightingScore", "minCalibrationConfidence", "maxPerspectiveDistortion"}

\* scores in thousandths, the distortion limit in thousandths of a degree
DEFAULT_THRESHOLDS ==
    [minBlurScore |-> 700, minLightingScore |-> 600, minCalibrationConfidence |-> 800, maxPerspectiveDistortion |-> 15000]

\* { ...base, ...partial }: a Partial<QualityThresholds> is a function on the
\* options it names
Spread(base, partial) == [k \in OptionNames |-> IF k \in DOMAIN partial THEN partial[k] ELSE base[k]]

\* constructor(thresholds = {})
constructThresholds(partial) == Spread(DEFAULT_THRESHOLDS, partial)

\* mutant: the options that are not named fall back to the defaults
setThresholds_ResetsOthers(current, partial) == Spread(DEFAULT_THRESHOLDS, partial)

\* setThresholds(thresholds)
setThresholds(current, partial) == Spread(current, partial)

\* An image is [width, height, data]; data lists the pixels row by row. Pixels
\* are grey and opaque, (v, v, v, 255), and data holds v.
PixelCount(img) == img.width * img.height

\* 0.299 r + 0.587 g + 0.114 b of a grey pixel
Luma(v) == (299 * v + 587 * v + 114 * v) \div 1000

\* Math.round(0.299 r + 0.587 g + 0.114 b) of a grey pixel
Brightness(v) == (299 * v + 587 * v + 114 * v + 500) \div 1000

\* grayscale[y * width + x]
GrayAt(img, x, y) == Luma(img.data[y * img.width + x + 1])

\* the kernel [[0,1,0],[1,-4,1],[0,1,0]] at an interior pixel
Laplacian(img, x, y) ==
    GrayAt(img, x, y - 1) + GrayAt(img, x - 1, y) + GrayAt(img, x + 1, y) + GrayAt(img, x, y + 1)
        - 4 * GrayAt(img, x, y)

\* the entries of the laplacian array that the convolution loop writes, row by
\* row; every other entry stays 0
RECURSIVE LaplacianResponses(_, _)
LaplacianResponses(img, i) ==
    IF i >= PixelCount(img) THEN <<>>
    ELSE LET x == i % img.width
             y == i \div img.width
             interior == x >= 1 /\ x < img.width - 1 /\ y >= 1 /\ y < img.height - 1
         IN  (IF interior THEN <<Laplacian(img, x, y)>> ELSE <<>>) \o LaplacianResponses(img, i + 1)

\* Math.round(v * 100) / 100 of a value in thousandths
RoundToHundredths(v) == ((v + 5) \div 10) * 10

\* checkBlur. With no nonzero response count is 0, mean and variance are 0/0 =
\* NaN, the score is NaN (scoreIsNaN) and NaN >= minBlurScore is false.
checkBlur(img, th) ==
    LET nonzero == SelectSeq(LaplacianResponses(img, 0), LAMBDA r : r # 0)
        count == Len(nonzero)
    IN  IF count = 0 THEN [score |-> 0, scoreIsNaN |-> TRUE, passed |-> FALSE]
        ELSE LET variance == VarianceNumerator(nonzero) \div (count * count)
                 normalizedScore == Min(1000, variance)
             IN  [score |-> RoundToHundredths(normalizedScore),
                  scoreIsNaN |-> FALSE,
                  passed |-> normalizedScore >= th.minBlurScore]

RECURSIVE MinOf(_)
MinOf(s) == IF Len(s) = 1 THEN s[1] ELSE Min(s[1], MinOf(Tail(s)))

RECURSIVE MaxOf(_)
MaxOf(s) == IF Len(s) = 1 THEN s[1] ELSE Max(s[1], MaxOf(Tail(s)))

\* mutant: the limit on the number of issues is missing
LightingPassed_ScoreOnly(score, n, issues, th) == score >= th.minLightingScore * 64 * n

\* passed: score >= this.thresholds.minLightingScore && issues.length <= 1, for a
\* score given as a numerator over 64000 * n
LightingPassed(score, n, issues, th) == score >= th.minLightingScore * 64 * n /\ Len(issues) <= 1

\* checkLighting. score is kept as the exact numerator over 64000 * n (n pixels):
\*   1 - |avg - 128| / 256 * 0.3 - max(0, (150 - range) / 150) * 0.3 - issues * 0.15
checkLighting(img, th) ==
    LET n == PixelCount(img)
        brightness == [i \in 1..n |-> Brightness(img.data[i])]
        totalBrightness == SumSeq(brightness)
        dynamicRange == MaxOf(brightness) - MinOf(brightness)
        darkPixels == Len(SelectSeq(brightness, LAMBDA b : b < 50))
        brightPixels == Len(SelectSeq(brightness, LAMBDA b : b >= 245))
        issues == (IF totalBrightness < 50 * n THEN <<"Image is too dark">> ELSE <<>>)
               \o (IF totalBrightness > 200 * n THEN <<"Image is too bright">> ELSE <<>>)
               \o (IF dynamicRange < 100 THEN <<"Low contrast - poor lighting">> ELSE <<>>)
               \o (IF 10 * darkPixels > 3 * n THEN <<"Significant shadows detected">> ELSE <<>>)
               \o (IF 10 * brightPixels > n THEN <<"Overexposed regions detected">> ELSE <<>>)
        raw == 64000 * n - 75 * Abs(totalBrightness - 128 * n)
                   - 128 * n * Max(0, 150 - dynamicRange) - 9600 * n * Len(issues)
        score == Max(0, Min(64000 * n, raw))
    IN  [score |-> ((score * 200 + 64000 * n) \div (2 * 64000 * n)) * 10,
         passed |-> LightingPassed(score, n, issues, th),
         issues |-> issues]

\* mutant: the spacing test is applied to every marker type
checkPerspective_AnyMarker(calibrationData, th) ==
    IF ~calibrationData.detected \/ Len(calibrationData.referencePoints) < 2
    THEN [distortion |-> 0, corrected |-> FALSE]
    ELSE LET spacings == Spacings(calibrationData.referencePoints)
             distortion ==
                 IF Len(calibrationData.referencePoints) >= 3
                 THEN (45000 * ISqrt(VarianceNumerator(spacings))) \div SumSeq(spacings)
                 ELSE 0
         IN  [distortion |-> ((distortion + 50) \div 100) * 100,
              corrected |-> distortion <= th.maxPerspectiveDistortion]

\* checkPerspective. distortion = cv * 45 degrees with cv = sqrt(n^2 variance) / sum.
checkPerspective(calibrationData, th) ==
    IF ~calibrationData.detected \/ Len(calibrationData.referencePoints) < 2
    THEN [distortion |-> 0, corrected |-> FALSE]
    ELSE LET spacings == Spacings(calibrationData.referencePoints)
             distortion ==
                 IF calibrationData.markerType = "ruler" /\ Len(calibrationData.referencePoints) >= 3
                 THEN (45000 * ISqrt(VarianceNumerator(spacings))) \div SumSeq(spacings)
                 ELSE 0
         IN  [distortion |-> ((distortion + 50) \div 100) * 100,
              corrected |-> distortion <= th.maxPerspectiveDistortion]

\* mutant: the aggregate leaves the perspective check out
runQualityChecks_IgnoresPerspective(imageData, calibrationData, th) ==
    LET blurResult == checkBlur(imageData, th)
        lightingResult == checkLighting(imageData, th)
        perspectiveResult == checkPerspective(calibrationData, th)
        allPassed ==
            /\ blurResult.passed
            /\ lightingResult.passed
            /\ calibrationData.detected
            /\ calibrationData.confidence >= th.minCalibrationConfidence
    IN  [passed |-> allPassed,
         blur |-> blurResult,
         lighting |-> lightingResult,
         calibration |-> [detected |-> calibrationData.detected, confidence |-> calibrationData.confidence],
         perspective |-> perspectiveResult]

runQualityChecks(imageData, calibrationData, th) ==
    LET blurResult == checkBlur(imageData, th)
        lightingResult == checkLighting(imageData, th)
        perspectiveResult == checkPerspective(calibrationData, th)
        allPassed ==
            /\ blurResult.passed
            /\ lightingResult.passed
            /\ calibrationData.detected
            /\ calibrationData.confidence >= th.minCalibrationConfidence
            /\ perspectiveResult.corrected
    IN  [passed |-> allPassed,
         blur |-> blurResult,
         lighting |-> lightingResult,
         calibration |-> [detected |-> calibrationData.detected, confidence |-> calibrationData.confidence],
         perspective |-> perspectiveResult]

\* issues.includes(issue)
Includes(list, e) == \E i \in 1..Len(list) : list[i] = e

BlurAdvice ==
    <<"Hold the camera steady or use a tripod",
      "Ensure adequate lighting for faster shutter speed",
      "Clean the camera lens">>
DarkAdvice == <<"Increase ambient lighting", "Use the camera flash if available">>
BrightAdvice == <<"Reduce direct lighting on the wound", "Avoid harsh overhead lights">>
ShadowAdvice == <<"Use diffused lighting", "Adjust camera angle to reduce shadows">>
CalibrationAdvice ==
    <<"Ensure the calibration ruler is visible in the frame",
      "Place the ruler on the same plane as the wound",
      "Avoid covering the ruler markings">>
PerspectiveAdvice ==
    <<"Position the camera perpendicular to the wound surface",
      "Maintain consistent distance from the wound">>

getRecommendations(check) ==
    (IF ~check.blur.passed THEN BlurAdvice ELSE <<>>)
        \o (IF ~check.lighting.passed
            THEN (IF Includes(check.lighting.issues, "Image is too dark") THEN DarkAdvice ELSE <<>>)
                 \o (IF Includes(check.lighting.issues, "Image is too bright") THEN BrightAdvice ELSE <<>>)
                 \o (IF Includes(check.lighting.issues, "Significant shadows detected") THEN ShadowAdvice ELSE <<>>)
            ELSE <<>>)
        \o (IF ~check.calibration.detected THEN CalibrationAdvice ELSE <<>>)
        \o (IF ~check.perspective.corrected THEN PerspectiveAdvice ELSE <<>>)

----------------------------------------------------------------------------
(* Measurement engine                                                      *)
(* Lengths in pixels are in hundredths; the returned area, length, width   *)
(* and perimeter, rounded to two decimals, are in hundredths of cm2 / cm.  *)

\* Math.round(a / b) for b > 0: the nearest integer, halves upwards
RoundDiv(a, b) == (2 * a + b) \div (2 * b)

\* mask.data holds the red channel of each pixel (data[i * 4])
\* mutant: every pixel of the mask counts
calculateAreaFromMask_EveryPixel(mask) == mask.width * mask.height

calculateAreaFromMask(mask) ==
    Cardinality({i \in 1..(mask.width * mask.height) : mask.data[i] > 127})

calculatePerimeter(contour) ==
    IF Len(contour) < 3 THEN 0
    ELSE SumSeq([i \in 1..Len(contour) |->
                    LET current == contour[i]
                        next == contour[(i % Len(contour)) + 1]
                    IN  Hypot(next.x - current.x, next.y - current.y)])

crossProduct(p1, p2, p3) ==
    (p2.x - p1.x) * (p3.y - p1.y) - (p2.y - p1.y) * (p3.x - p1.x)

\* mutant: the loop ends with the last index
LowestFrom_Last(points, i, lowest) == Len(points)

\* the loop that finds the lowest point, from index i on
RECURSIVE LowestFrom(_, _, _)
LowestFrom(points, i, lowest) ==
    IF i > Len(points) THEN lowest
    ELSE IF \/ points[i].y < points[lowest].y
            \/ points[i].y = points[lowest].y /\ points[i].x < points[lowest].x
         THEN LowestFrom(points, i + 1, i)
         ELSE LowestFrom(points, i + 1, lowest)

\* [sorted[0], sorted[lowest]] = [sorted[lowest], sorted[0]]
SwapToFirst(points, lowest) ==
    [k \in 1..Len(points) |->
        IF k = 1 THEN points[lowest] ELSE IF k = lowest THEN points[1] ELSE points[k]]

\* mutant: points in line with the last edge are kept
RECURSIVE GrahamPop_KeepsCollinear(_, _)
GrahamPop_KeepsCollinear(hull, p) ==
    IF Len(hull) > 1 /\ crossProduct(hull[Len(hull) - 1], hull[Len(hull)], p) < 0
    THEN GrahamPop_KeepsCollinear(SubSeq(hull, 1, Len(hull) - 1), p)
    ELSE hull

\* the while loop of the scan: pop while the turn to p is not a left turn
RECURSIVE GrahamPop(_, _)
GrahamPop(hull, p) ==
    IF Len(hull) > 1 /\ crossProduct(hull[Len(hull) - 1], hull[Len(hull)], p) <= 0
    THEN GrahamPop(SubSeq(hull, 1, Len(hull) - 1), p)
    ELSE hull

\* the for loop of the scan, from index i on
RECURSIVE GrahamScan(_, _, _)
GrahamScan(sorted, i, hull) ==
    IF i > Len(sorted) THEN hull
    ELSE GrahamScan(sorted, i + 1, Append(GrahamPop(hull, sorted[i]), sorted[i]))

\* sorted.slice(1).sort(...) sorts a copy that is dropped, so `sorted` keeps
\* the order of `points` with the lowest point swapped to the front
convexHull(points) ==
    IF Len(points) < 3 THEN points
    ELSE LET sorted == SwapToFirst(points, LowestFrom(points, 2, 1))
         IN  GrahamScan(sorted, 3, <<sorted[1], sorted[2]>>)

\* rotatePoint(point, -atan2(ey, ex), center), relative to the center and
\* scaled by the length of (ex, ey): cos is ex / length, sin is ey / length
rotatePoint(point, ex, ey, center) ==
    LET dx == point.x - center.x
        dy == point.y - center.y
    IN  [x |-> dx * ex + dy * ey, y |-> dy * ex - dx * ey]

\* the bounding box with edge i as base: its spans scaled by the length of
\* the edge, whose square is len2; atan2(0, 0) is 0, the direction (1, 0)
EdgeRect(hull, i) ==
    LET p1 == hull[i]
        p2 == hull[(i % Len(hull)) + 1]
        samePoint == p1 = p2
        ex == IF samePoint THEN 1 ELSE p2.x - p1.x
        ey == IF samePoint THEN 0 ELSE p2.y - p1.y
        rotated == [k \in 1..Len(hull) |-> rotatePoint(hull[k], ex, ey, hull[1])]
        xs == [k \in 1..Len(hull) |-> rotated[k].x]
        ys == [k \in 1..Len(hull) |-> rotated[k].y]
    IN  [spanX |-> MaxOf(xs) - MinOf(xs), spanY |-> MaxOf(ys) - MinOf(ys),
         len2 |-> ex * ex + ey * ey, edge |-> i]

\* area < minArea, both areas being spanX * spanY / len2
SmallerArea(r, best) ==
    r.spanX * r.spanY * best.len2 < best.spanX * best.spanY * r.len2

\* the loop over the edges, from edge i on; the first edge always beats Infinity
RECURSIVE BestRectFrom(_, _, _)
BestRectFrom(hull, i, best) ==
    IF i > Len(hull) THEN best
    ELSE BestRectFrom(hull, i + 1,
             IF SmallerArea(EdgeRect(hull, i), best) THEN EdgeRect(hull, i) ELSE best)

\* width and height in hundredths of a pixel; `edge` stands for the angle:
\* the index of the hull edge the rectangle lies along (0: none)
minAreaRect(hull) ==
    IF Len(hull) < 3 THEN [width |-> 0, height |-> 0, edge |-> 0]
    ELSE LET best == BestRectFrom(hull, 2, EdgeRect(hull, 1))
         IN  [width |-> ISqrt((best.spanX * best.spanX * 10000) \div best.len2),
              height |-> ISqrt((best.spanY * best.spanY * 10000) \div best.len2),
              edge |-> best.edge]

calculateLengthWidth(contour) ==
    IF Len(contour) < 3 THEN [length |-> 0, width |-> 0]
    ELSE LET minRect == minAreaRect(convexHull(contour))
         IN  [length |-> Max(minRect.width, minRect.height),
              width |-> Min(minRect.width, minRect.height)]

NoMeasurement == [area |-> -1, length |-> -1, width |-> -1, perimeter |-> -1]
\* what the divisions by a zero pixelsPerCm would give: Infinity or NaN
NotFinite == [area |-> -2, length |-> -2, width |-> -2, perimeter |-> -2]

CalibrationRequired == "Valid calibration required for measurement"

\* no validation was asked for
NoValidation == [isValid |-> FALSE, warnings |-> <<"none">>]


\* length / width > 10: 0 / 0 is NaN, which compares false, and a positive
\* length over a zero width is Infinity
AspectRatioOver10(m) ==
    IF m.width = 0 THEN m.length > 0 ELSE m.length > 10 * m.width

\* areaRatio < 0.3 || areaRatio > 1.5 with areaRatio = area / ((PI / 4) *
\* length * width), PI taken as 355 / 113; 0 / 0 is NaN, which compares
\* false both times, and a positive area over 0 is Infinity
AreaRatioOutOfBand(m) ==
    IF m.length * m.width = 0 THEN m.area > 0
    ELSE \/ 4000 * 113 * m.area < 3 * 355 * m.length * m.width
         \/ 800 * 113 * m.area > 3 * 355 * m.length * m.width

\* figures are in hundredths of cm2 and of cm
validateMeasurement(m) ==
    LET warnings ==
            (IF m.area > 100000 THEN <<"Area exceeds 1000 cm2 - verify calibration">> ELSE <<>>)
            \o (IF m.length > 5000 \/ m.width > 5000 THEN <<"Dimensions exceed 50 cm - verify calibration">> ELSE <<>>)
            \o (IF AspectRatioOver10(m) THEN <<"Unusual aspect ratio detected - verify segmentation">> ELSE <<>>)
            \o (IF AreaRatioOutOfBand(m) THEN <<"Area inconsistent with dimensions - verify segmentation">> ELSE <<>>)
    IN  [isValid |-> Len(warnings) = 0, warnings |-> warnings]

\* the body of calculateMeasurements after its guard
Measure(seg, pixelsPerCm) ==
    LET areaPixels == calculateAreaFromMask(seg.mask)
        perimeterPixels == calculatePerimeter(seg.contour)
        lw == calculateLengthWidth(seg.contour)
    IN  [area |-> RoundDiv(areaPixels * 1000000, pixelsPerCm * pixelsPerCm),
         length |-> RoundDiv(lw.length * 100, pixelsPerCm),
         width |-> RoundDiv(lw.width * 100, pixelsPerCm),
         perimeter |-> RoundDiv(perimeterPixels * 100, pixelsPerCm)]

\* mutant: the guard looks at `detected` only
calculateMeasurements_DetectedOnly(seg, cal) ==
    IF ~cal.detected
    THEN [threw |-> TRUE, error |-> CalibrationRequired, value |-> NoMeasurement]
    ELSE [threw |-> FALSE, error |-> "",
          value |-> IF cal.pixelsPerCm <= 0 THEN NotFinite ELSE Measure(seg, cal.pixelsPerCm)]

calculateMeasurements(seg, cal) ==
    IF ~cal.detected \/ cal.pixelsPerCm <= 0
    THEN [threw |-> TRUE, error |-> CalibrationRequired, value |-> NoMeasurement]
    ELSE [threw |-> FALSE, error |-> "", value |-> Measure(seg, cal.pixelsPerCm)]

----------------------------------------------------------------------------
(* The frames the detectors are run on                                     *)

\* gaps in pixels between consecutive tick marks of the ruler profile
TickGaps == {10, 11, 14, 40}

RECURSIVE NonDecreasing(_)
NonDecreasing(s) == Len(s) < 2 \/ (s[1] <= s[2] /\ NonDecreasing(Tail(s)))

\* Confidence, spacing and distortion depend on the multiset of gaps only, so the
\* gaps are listed in non-decreasing order.
TickGapSeqs ==
    UNION {{g \in [1..n -> TickGaps] : NonDecreasing(g)} : n \in (RulerMinTickCount - 2)..(MaxTicks - 1)}

\* detectTickMarks: one point per local minimum of the profile, on the ruler axis
TicksFromGaps(gaps) ==
    [i \in 1..(Len(gaps) + 1) |-> Point(2 + SumSeq(SubSeq(gaps, 1, i - 1)), 0)]

RulerFacts ==
    {[parallelLines |-> 1, ticks |-> <<>>]}
        \cup {[parallelLines |-> 2, ticks |-> TicksFromGaps(g)] : g \in TickGapSeqs}

\* accumulator peaks with the circularity calculateCircularity gives them
CirclePeaks ==
    {[centerX |-> 20, centerY |-> 20, radius |-> 10, circularity |-> 650],
     [centerX |-> 20, centerY |-> 20, radius |-> 12, circularity |-> 750],
     [centerX |-> 20, centerY |-> 20, radius |-> 15, circularity |-> 850]}

CirclePeakSeqs == UNION {[1..n -> CirclePeaks] : n \in 0..MaxCirclePeaks}

\* corner k of a lattice of Harris corners filled column by column
LatticeCorner(k, perColumn, pitch) == Point(2 + pitch * (k \div perColumn), 2 + pitch * (k % perColumn))

\* harrisCornerDetection pushes corners row by row (y outer loop, x inner loop)
CornerLattice(count, perColumn, pitch) ==
    StableSort("scan", [i \in 1..count |-> LatticeCorner(i - 1, perColumn, pitch)])

CornerCounts == {15, 16, 17}
CornersPerColumn == {4, 17}
CornerPitches == {4, 8}

CornerSeqs ==
    {CornerLattice(n, c, p) : n \in CornerCounts, c \in CornersPerColumn, p \in CornerPitches}

NoFrame == [parallelLines |-> 0, ticks |-> <<>>, circlePeaks |-> <<>>, corners |-> <<>>]

Frames ==
    {[parallelLines |-> r.parallelLines, ticks |-> r.ticks, circlePeaks |-> c, corners |-> g] :
        r \in RulerFacts, c \in CirclePeakSeqs, g \in CornerSeqs}

ManualPoints == {Point(px, py) : px \in 0..MaxManualCoord, py \in 0..MaxManualCoord}

NoManualArgs == [point1 |-> Point(0, 0), point2 |-> Point(0, 0), distanceCm |-> 0]

----------------------------------------------------------------------------
(* The inputs of the quality checks                                        *)

\* grey levels of the pixels
Levels == {0, 10, 60, 250}

\* An image with two border tones and two interior tones: the top row and the
\* left column are a, the right column and the bottom row are b, the interior
\* pixels alternate between c1 and c2.
TestImage(a, b, c1, c2) ==
    [width |-> ImageWidth,
     height |-> ImageHeight,
     data |-> [i \in 1..(ImageWidth * ImageHeight) |->
                  LET x == (i - 1) % ImageWidth
                      y == (i - 1) \div ImageWidth
                  IN  IF x >= 1 /\ x < ImageWidth - 1 /\ y >= 1 /\ y < ImageHeight - 1
                      THEN (IF (x + y) % 2 = 0 THEN c1 ELSE c2)
                      ELSE IF y = 0 \/ (x = 0 /\ y < ImageHeight - 1) THEN a ELSE b]]

Images == {TestImage(a, b, c1, c2) : a \in Levels, b \in Levels, c1 \in Levels, c2 \in Levels}

NoImage == [width |-> 0, height |-> 0, data |-> <<>>]

\* calibration results as the calibration engine produces them: rulers with
\* even, slightly uneven and very uneven ticks, circles, grids, a manual
\* calibration and a failed detection
QualityCalibrations ==
    {detectRuler([parallelLines |-> 2, ticks |-> TicksFromGaps(g)]) :
        g \in {<<10, 10, 10, 10>>, <<10, 10, 10, 14>>, <<10, 10, 10, 40>>}}
    \cup {detectCircle([circlePeaks |-> <<c>>]) : c \in CirclePeaks}
    \cup {detectGrid([corners |-> CornerLattice(n, 4, 8)]) : n \in {16, 17}}
    \cup {manualCalibration(Point(0, 0), Point(2, 1), 1)}

\* the values an option is set to
OptionValues ==
    [minBlurScore |-> {700, 100},
     minLightingScore |-> {600, 400},
     minCalibrationConfidence |-> {800, 600},
     maxPerspectiveDistortion |-> {15000, 5000}]

\* the Partial<QualityThresholds> arguments: at most MaxNamedOptions options named
PartialThresholds ==
    {p \in UNION {[named -> UNION {OptionValues[k] : k \in named}] :
                     named \in {n \in SUBSET OptionNames : Cardinality(n) <= MaxNamedOptions}} :
        \A k \in DOMAIN p : p[k] \in OptionValues[k]}

NoReport ==
    [passed |-> FALSE,
     blur |-> [score |-> 0, scoreIsNaN |-> FALSE, passed |-> FALSE],
     lighting |-> [score |-> 0, passed |-> FALSE, issues |-> <<>>],
     calibration |-> [detected |-> FALSE, confidence |-> 0],
     perspective |-> [distortion |-> 0, corrected |-> FALSE]]

----------------------------------------------------------------------------
(* The inputs of the measurement engine                                    *)

\* corners, centre and edge midpoint of a square: collinear triples,
\* repeated points and both orientations occur among the contours
ContourPoints == {Point(0, 0), Point(2, 0), Point(2, 2), Point(0, 2), Point(1, 1)}

RECURSIVE ContoursOfLength(_)
ContoursOfLength(n) ==
    IF n = 0 THEN {<<>>}
    ELSE {Append(c, p) : c \in ContoursOfLength(n - 1), p \in ContourPoints}

Contours == UNION {ContoursOfLength(n) : n \in 0..MaxContour}

\* a binary mask whose first k pixels are wound (255) and the others 0
Mask(k) ==
    [width |-> MaskWidth, height |-> MaskHeight,
     data |-> [i \in 1..(MaskWidth * MaskHeight) |-> IF i <= k THEN 255 ELSE 0]]

\* a binary mask whose wound pixels are the n-by-n square with its top left
\* corner at (offset, offset); pixel (x, y) is data[y * width + x]
SquareMask(n, offset) ==
    [width |-> MaskWidth, height |-> MaskHeight,
     data |-> [i \in 1..(MaskWidth * MaskHeight) |->
                IF /\ (i - 1) % MaskWidth \in offset..(offset + n - 1)
                   /\ (i - 1) \div MaskWidth \in offset..(offset + n - 1)
                THEN 255 ELSE 0]]

\* the squares that fit in the mask, along its diagonal
SquareMasks ==
    UNION {{SquareMask(n, offset) : offset \in 0..(Min(MaskWidth, MaskHeight) - n)} :
              n \in 1..Min(MaskWidth, MaskHeight)}

Masks ==
    {Mask(k) : k \in {0, (MaskWidth * MaskHeight) \div 2, MaskWidth * MaskHeight}}
        \cup SquareMasks

Segmentations == {[mask |-> m, contour |-> c] : m \in Masks, c \in Contours}

NoSegmentation == [mask |-> NoImage, contour |-> <<>>]

\* calibrations as the calibration engine returns them: a failed detection,
\* a ruler, a manual calibration, a grid whose corners lie in one column,
\* a manual calibration between two equal points, one with a negative known
\* distance, and manual calibrations of n pixels to the centimetre
MeasureCalibrations ==
    {createFailedCalibration("none"),
     detectRuler([parallelLines |-> 2, ticks |-> TicksFromGaps(<<10, 10, 10, 10>>)]),
     manualCalibration(Point(0, 0), Point(2, 1), 1),
     detectGrid([corners |-> CornerLattice(16, 17, 4)]),
     manualCalibration(Point(1, 1), Point(1, 1), 1),
     manualCalibration(Point(0, 0), Point(2, 0), -1)}
        \cup {manualCalibration(Point(0, 0), Point(n, 0), 1) : n \in 1..Min(MaskWidth, MaskHeight)}

----------------------------------------------------------------------------
(* State machine of the calibration engine                                 *)

CalibrationIdle ==
    /\ cpc = "start"
    /\ frame = NoFrame
    /\ rulerResult = NoResult
    /\ circleResult = NoResult
    /\ gridResult = NoResult
    /\ calibration = NoResult
    /\ evaluated = <<>>
    /\ manualArgs = NoManualArgs

\* a frame is handed to detectCalibration
CaptureFrame ==
    /\ cpc = "start"
    /\ frame' \in Frames
    /\ cpc' = "ruler"
    /\ UNCHANGED <<rulerResult, circleResult, gridResult, calibration, evaluated, manualArgs>>
    /\ UNCHANGED nonCalibVars

\* mutant: the ruler's early return is missing
TryRuler_NoEarlyReturn ==
    /\ cpc = "ruler"
    /\ rulerResult' = detectRuler(frame)
    /\ evaluated' = Append(evaluated, "ruler")
    /\ cpc' = "circle"
    /\ UNCHANGED <<frame, circleResult, gridResult, calibration, manualArgs>>
    /\ UNCHANGED nonCalibVars

\* 1. Try ruler detection
TryRuler ==
    /\ cpc = "ruler"
    /\ rulerResult' = detectRuler(frame)
    /\ evaluated' = Append(evaluated, "ruler")
    /\ IF Accepted(rulerResult')
       THEN calibration' = rulerResult' /\ cpc' = "done"
       ELSE calibration' = calibration /\ cpc' = "circle"
    /\ UNCHANGED <<frame, circleResult, gridResult, manualArgs>>
    /\ UNCHANGED nonCalibVars

\* 2. Try circle detection
TryCircle ==
    /\ cpc = "circle"
    /\ circleResult' = detectCircle(frame)
    /\ evaluated' = Append(evaluated, "circle")
    /\ IF Accepted(circleResult')
       THEN calibration' = circleResult' /\ cpc' = "done"
       ELSE calibration' = calibration /\ cpc' = "grid"
    /\ UNCHANGED <<frame, rulerResult, gridResult, manualArgs>>
    /\ UNCHANGED nonCalibVars

\* 3. Try grid detection, then return the best result or failure
TryGrid ==
    /\ cpc = "grid"
    /\ gridResult' = detectGrid(frame)
    /\ evaluated' = Append(evaluated, "grid")
    /\ calibration' = IF Accepted(gridResult') THEN gridResult'
                      ELSE BestResult(<<rulerResult, circleResult, gridResult'>>)
    /\ cpc' = "done"
    /\ UNCHANGED <<frame, rulerResult, circleResult, manualArgs>>
    /\ UNCHANGED nonCalibVars

ManualCalibration ==
    /\ cpc = "start"
    /\ \E point1 \in ManualPoints, point2 \in ManualPoints, distanceCm \in 1..MaxDistanceCm :
          /\ manualArgs' = [point1 |-> point1, point2 |-> point2, distanceCm |-> distanceCm]
          /\ calibration' = manualCalibration(point1, point2, distanceCm)
    /\ cpc' = "manual"
    /\ UNCHANGED <<frame, rulerResult, circleResult, gridResult, evaluated>>
    /\ UNCHANGED nonCalibVars

NextCalibration == CaptureFrame \/ TryRuler \/ TryCircle \/ TryGrid \/ ManualCalibration

----------------------------------------------------------------------------
(* State machine of the quality check engine                               *)

\* new QualityCheckEngine(partial)
QualityConstructed ==
    /\ qpc = "ready"
    /\ \E partial \in PartialThresholds : thresholds = constructThresholds(partial)
    /\ image = NoImage
    /\ qcal = NoResult
    /\ report = NoReport
    /\ recommendations = <<>>

\* the singleton of getQualityCheckEngine(): new QualityCheckEngine()
QualityIdle ==
    /\ qpc = "ready"
    /\ thresholds = constructThresholds(<<>>)
    /\ image = NoImage
    /\ qcal = NoResult
    /\ report = NoReport
    /\ recommendations = <<>>

\* setThresholds(partial), between frames
SetThresholds ==
    /\ qpc = "ready"
    /\ \E partial \in PartialThresholds : thresholds' = setThresholds(thresholds, partial)
    /\ UNCHANGED <<qpc, image, qcal, report, recommendations>>
    /\ UNCHANGED nonQualityVars

\* runQualityChecks(imageData, calibrationData)
RunQualityChecks ==
    /\ qpc = "ready"
    /\ \E imageData \in Images, calibrationData \in QualityCalibrations :
          /\ image' = imageData
          /\ qcal' = calibrationData
          /\ report' = runQualityChecks(imageData, calibrationData, thresholds)
    /\ qpc' = "checked"
    /\ UNCHANGED <<thresholds, recommendations>>
    /\ UNCHANGED nonQualityVars

\* getRecommendations(report)
GetRecommendations ==
    /\ qpc = "checked"
    /\ recommendations' = getRecommendations(report)
    /\ qpc' = "advised"
    /\ UNCHANGED <<thresholds, image, qcal, report>>
    /\ UNCHANGED nonQualityVars

NextQuality == SetThresholds \/ RunQualityChecks \/ GetRecommendations

----------------------------------------------------------------------------
(* State machine of the measurement engine                                 *)

\* the singleton of getMeasurementEngine(), before a call
MeasurementIdle ==
    /\ mpc = "idle"
    /\ segmentation = NoSegmentation
    /\ mcal = NoResult
    /\ measurement = NoMeasurement
    /\ merror = ""
    /\ validation = NoValidation

\* calculateMeasurements(segmentation, calibration)
CalculateMeasurements ==
    /\ mpc = "idle"
    /\ \E seg \in Segmentations, cal \in MeasureCalibrations :
          LET call == calculateMeasurements(seg, cal)
          IN  /\ segmentation' = seg
              /\ mcal' = cal
              /\ measurement' = call.value
              /\ merror' = call.error
              /\ mpc' = IF call.threw THEN "threw" ELSE "returned"
    /\ UNCHANGED <<validation, nonMeasureVars>>

\* validateMeasurement(measurement) for the measurement that was returned
ValidateMeasurement ==
    /\ mpc = "returned"
    /\ validation' = validateMeasurement(measurement)
    /\ mpc' = "validated"
    /\ UNCHANGED <<segmentation, mcal, measurement, merror, nonMeasureVars>>

NextMeasurement == CalculateMeasurements \/ ValidateMeasurement

----------------------------------------------------------------------------
(* The capture pipeline: WoundCapture and the CameraModule it shows        *)
(*                                                                         *)
(* One action is one browser task.  detectCalibration and runQualityChecks *)
(* await only their own synchronous steps, so captureImage runs from the   *)
(* click to the first await of processImage within one task; the           *)
(* segmentation engine yields to the event loop (setTimeout, tensor data), *)
(* and so do getUserMedia, requestAnimationFrame and setTimeout.           *)

\* calibrations detectCalibration returns for a captured frame: none found,
\* a ruler, and a grid that is detected with pixelsPerCm = 0
CaptureCalibrations ==
    {createFailedCalibration("none"),
     detectRuler([parallelLines |-> 2, ticks |-> TicksFromGaps(<<10, 10, 10, 10>>)]),
     detectGrid([corners |-> CornerLattice(16, 17, 4)])}

\* what segEngine.segment resolves with
CaptureSegmentation ==
    [mask |-> Mask(MaskWidth * MaskHeight),
     contour |-> <<Point(0, 0), Point(2, 0), Point(2, 2), Point(0, 2)>>]

SegmentationFailed == "segmentation failed"

NoCamera == [error |-> FALSE, hasSource |-> FALSE]

CaptureIdle ==
    /\ capture = [showCamera |-> FALSE, capturedImage |-> 0, processing |-> FALSE,
                  error |-> "", segmentation |-> 0, measurement |-> 0]
    /\ mounts = 0
    /\ camera = NoCamera
    /\ previewImage = 0
    /\ pendingInits = <<>>
    /\ liveLoops = <<>>
    /\ frames = <<>>
    /\ saved = <<>>

\* the <video> element is rendered by the mounted instance
VideoRendered == capture.showCamera /\ ~camera.error /\ previewImage = 0

\* instance k is the one on screen
Mounted(k) == capture.showCamera /\ k = mounts

\* one more initCamera call may start
MayInit == Len(pendingInits) + Len(liveLoops) < MaxInits

RemoveAt(s, i) == SubSeq(s, 1, i - 1) \o SubSeq(s, i + 1, Len(s))

\* requestAnimationFrame returns a handle other than the last one
NextAnimationId(id) == (id % MaxAnimationId) + 1

\* "Capture Wound Image" or "Retake" of WoundCapture: setShowCamera(true)
\* mounts a CameraModule, whose effect calls initCamera
ShowCamera ==
    /\ ~capture.showCamera
    /\ mounts < MaxMounts
    /\ MayInit
    /\ capture' = [capture EXCEPT !.showCamera = TRUE]
    /\ mounts' = mounts + 1
    /\ camera' = NoCamera
    /\ pendingInits' = Append(pendingInits, mounts + 1)
    /\ UNCHANGED <<previewImage, liveLoops, frames>>
    /\ UNCHANGED <<saved, nonCaptureVars>>

\* onClose: the X button, Close of the error view or Use Photo; the effect's
\* cleanup runs stopCamera, which stops the stream's tracks and nothing else
CloseCamera ==
    /\ capture.showCamera
    /\ capture' = [capture EXCEPT !.showCamera = FALSE]
    /\ camera' = NoCamera
    /\ UNCHANGED <<mounts, previewImage, pendingInits, liveLoops, frames>>
    /\ UNCHANGED <<saved, nonCaptureVars>>

\* getUserMedia and play resolve in the initCamera call of instance
\* pendingInits[i]: the stream is attached if the instance still shows its
\* <video>, and startLiveCalibrationDetection starts a loop whose cancel
\* function initCamera drops
InitCameraResolves ==
    \E i \in 1..Len(pendingInits) :
        LET k == pendingInits[i]
        IN  /\ pendingInits' = RemoveAt(pendingInits, i)
            /\ camera' = IF Mounted(k) /\ VideoRendered
                         THEN [camera EXCEPT !.hasSource = TRUE] ELSE camera
            /\ liveLoops' = Append(liveLoops, [instance |-> k, phase |-> "frame", animationId |-> 1])
            /\ UNCHANGED <<capture, mounts, previewImage, frames>>
            /\ UNCHANGED <<saved, nonCaptureVars>>

\* getUserMedia or play rejects: setError, no loop is started
InitCameraRejects ==
    \E i \in 1..Len(pendingInits) :
        LET k == pendingInits[i]
        IN  /\ pendingInits' = RemoveAt(pendingInits, i)
            /\ camera' = IF Mounted(k) THEN [error |-> TRUE, hasSource |-> FALSE] ELSE camera
            /\ UNCHANGED <<capture, mounts, previewImage, liveLoops, frames>>
            /\ UNCHANGED <<saved, nonCaptureVars>>

\* Retry of the error view: initCamera again; the view shows a new <video>
RetryCamera ==
    /\ capture.showCamera /\ camera.error
    /\ MayInit
    /\ camera' = NoCamera
    /\ pendingInits' = Append(pendingInits, mounts)
    /\ UNCHANGED <<capture, mounts, previewImage, liveLoops, frames>>
    /\ UNCHANGED <<saved, nonCaptureVars>>

\* toggleCamera: facingMode changes, the effect runs stopCamera and initCamera
ToggleCamera ==
    /\ VideoRendered
    /\ MayInit
    /\ pendingInits' = Append(pendingInits, mounts)
    /\ UNCHANGED <<capture, mounts, camera, previewImage, liveLoops, frames>>
    /\ UNCHANGED <<saved, nonCaptureVars>>

\* retake of the CameraModule, shown over a preview: the <video> is rendered
\* anew, without a stream
RetakePreview ==
    /\ capture.showCamera /\ ~camera.error /\ previewImage # 0
    /\ previewImage' = 0
    /\ camera' = NoCamera
    /\ UNCHANGED <<capture, mounts, pendingInits, liveLoops, frames>>
    /\ UNCHANGED <<saved, nonCaptureVars>>

\* mutant: handleCapture processes every frame
ShouldProcess_Always(cal) == TRUE

\* handleCapture: if (cal.detected) await processImage(imgData, cal)
ShouldProcess(cal) == cal.detected

\* captureImage, then handleCapture and processImage up to `await
\* segEngine.segment`.  A <video> without a stream has videoWidth 0, and
\* getImageData of an empty canvas throws: 'Failed to capture image'.
\* isProcessing is set and, the instance being unmounted by handleCapture or
\* the finally clause being reached, cleared within the task.
CaptureImage ==
    /\ VideoRendered
    /\ IF ~camera.hasSource
       THEN /\ camera' = [error |-> TRUE, hasSource |-> FALSE]
            /\ UNCHANGED <<capture, previewImage, frames>>
       ELSE /\ Len(frames) < MaxFrames
            /\ \E cal \in CaptureCalibrations :
                  LET f == Len(frames) + 1
                      process == ShouldProcess(cal)
                  IN  /\ previewImage' = f
                      /\ frames' = Append(frames,
                            [calibration |-> cal,
                             stage |-> IF process THEN "segmentation" ELSE "unprocessed",
                             ran |-> <<"calibration", "quality">>
                                         \o (IF process THEN <<"segmentation">> ELSE <<>>),
                             segmentationFailed |-> FALSE])
                      /\ capture' = [capture EXCEPT
                            !.showCamera = FALSE,
                            !.capturedImage = f,
                            !.processing = IF process THEN TRUE ELSE @,
                            !.error = IF process THEN "" ELSE @]
            /\ camera' = NoCamera
    /\ UNCHANGED <<mounts, pendingInits, liveLoops>>
    /\ UNCHANGED <<saved, nonCaptureVars>>

\* the calculateMeasurements call processImage makes for frame f
MeasureCall(f) == calculateMeasurements(CaptureSegmentation, frames[f].calibration)

\* segEngine.segment resolves for frame f: setSegmentation, then
\* calculateMeasurements, whose Error the catch clause shows
SegmentationResolves ==
    \E f \in 1..Len(frames) :
        /\ frames[f].stage = "segmentation"
        /\ frames' = [frames EXCEPT
              ![f].stage = IF MeasureCall(f).threw THEN "failed" ELSE "measured",
              ![f].ran = Append(@, "measurement")]
        /\ capture' = [capture EXCEPT
              !.segmentation = f,
              !.measurement = IF MeasureCall(f).threw THEN @ ELSE f,
              !.error = IF MeasureCall(f).threw THEN MeasureCall(f).error ELSE @,
              !.processing = FALSE]
        /\ UNCHANGED <<mounts, camera, previewImage, pendingInits, liveLoops>>
        /\ UNCHANGED <<saved, nonCaptureVars>>

\* segEngine.initialize or segment rejects for frame f: the catch clause
SegmentationRejects ==
    \E f \in 1..Len(frames) :
        /\ frames[f].stage = "segmentation"
        /\ frames' = [frames EXCEPT ![f].stage = "failed", ![f].segmentationFailed = TRUE]
        /\ capture' = [capture EXCEPT !.error = SegmentationFailed, !.processing = FALSE]
        /\ UNCHANGED <<mounts, camera, previewImage, pendingInits, liveLoops>>
        /\ UNCHANGED <<saved, nonCaptureVars>>

\* the animation frame of a live loop fires: without its <video> and canvas,
\* or before the video has data, it asks for the next frame; otherwise it
\* runs detectCalibration on the frame and sets the 200 ms timer
LiveFrame ==
    \E i \in 1..Len(liveLoops) :
        /\ liveLoops[i].phase = "frame"
        /\ liveLoops' = [liveLoops EXCEPT ![i] =
              IF Mounted(@.instance) /\ VideoRendered /\ camera.hasSource
              THEN [@ EXCEPT !.phase = "timer"]
              ELSE [@ EXCEPT !.animationId = NextAnimationId(@)]]
        /\ UNCHANGED <<capture, mounts, camera, previewImage, pendingInits, frames>>
        /\ UNCHANGED <<saved, nonCaptureVars>>

\* the 200 ms timer of a live loop fires: requestAnimationFrame
LiveTimer ==
    \E i \in 1..Len(liveLoops) :
        /\ liveLoops[i].phase = "timer"
        /\ liveLoops' = [liveLoops EXCEPT ![i] =
              [@ EXCEPT !.phase = "frame", !.animationId = NextAnimationId(@)]]
        /\ UNCHANGED <<capture, mounts, camera, previewImage, pendingInits, frames>>
        /\ UNCHANGED <<saved, nonCaptureVars>>

\* saveAssessment: the Save button is rendered when `measurement` is set; the
\* handler returns unless capturedImage, calibration, quality, segmentation
\* and measurement are all set, and hands the assessment built from them to
\* addAssessment and onComplete.  The image, calibration and quality are
\* those of frame capturedImage; segmentation and measurement are named by
\* the frame they were computed from.
SaveAssessment ==
    /\ capture.measurement # 0
    /\ capture.capturedImage # 0
    /\ capture.segmentation # 0
    /\ saved' = <<[originalImage |-> capture.capturedImage,
                   calibrationData |-> frames[capture.capturedImage].calibration,
                   segmentationResult |-> capture.segmentation,
                   measurement |-> capture.measurement]>>
    /\ UNCHANGED <<capture, mounts, camera, previewImage, pendingInits, liveLoops, frames>>
    /\ UNCHANGED nonCaptureVars

NextCapture ==
    \/ ShowCamera \/ CloseCamera \/ InitCameraResolves \/ InitCameraRejects
    \/ RetryCamera \/ ToggleCamera \/ RetakePreview \/ CaptureImage
    \/ SegmentationResolves \/ SegmentationRejects \/ LiveFrame \/ LiveTimer
    \/ SaveAssessment

----------------------------------------------------------------------------
(* Healing analytics                                                       *)
(* Times are in quarters of a day (6 hours); areas in hundredths of cm2;   *)
(* areaChangePercent, rounded to one decimal, is in tenths of a percent;   *)
(* healingRate, rounded to three decimals, is in thousandths of cm2/day.   *)

\* n days, in quarters of a day
Days(n) == 4 * n

\* Math.round((date2 - date1) / msPerDay)
daysBetween(date1, date2) == RoundDiv(date2 - date1, Days(1))

\* Math.ceil(a / b) for b > 0
CeilDiv(a, b) == -((-a) \div b)

\* mutant: projects from the healing rate as it is reported (3 decimals)
projectedHealingDate_FromReportedRate(current, areaChange, daysDiff) ==
    IF daysDiff > 0 /\ RoundDiv(-areaChange * 10, daysDiff) > 0 /\ current.area > 0
    THEN <<current.capturedAt + Days(CeilDiv(current.area * 10, RoundDiv(-areaChange * 10, daysDiff)))>>
    ELSE <<>>

\* the projected healing date of an entry: <<>> (undefined) or <<date>>;
\* healingRate here is the unrounded -areaChange / daysDiff (0 without a
\* previous assessment or with daysDiff <= 0, which the caller passes as 0)
projectedHealingDate(current, areaChange, daysDiff) ==
    IF daysDiff > 0 /\ -areaChange > 0 /\ current.area > 0
    THEN <<current.capturedAt + Days(CeilDiv(current.area * daysDiff, -areaChange))>>
    ELSE <<>>

\* mutant: the percentage is taken of the current area
HealingEntry_PercentOfCurrent(sorted, i) ==
    LET current == sorted[i]
        previousArea == IF i > 1 THEN sorted[i - 1].area ELSE current.area
        areaChange == current.area - previousArea
        daysDiff == IF i > 1 THEN daysBetween(sorted[i - 1].capturedAt, current.capturedAt) ELSE 0
    IN  [assessmentId |-> current.id,
         date |-> current.capturedAt,
         area |-> current.area,
         areaChange |-> areaChange,
         areaChangePercent |-> IF current.area > 0 THEN RoundDiv(areaChange * 1000, current.area) ELSE 0,
         healingRate |-> IF daysDiff > 0 THEN RoundDiv(-areaChange * 10, daysDiff) ELSE 0,
         projectedHealingDate |-> projectedHealingDate(current, areaChange, daysDiff)]

\* one iteration of calculateHealingProgress's loop: the entry pushed for
\* sorted[i]
HealingEntry(sorted, i) ==
    LET current == sorted[i]
        previousArea == IF i > 1 THEN sorted[i - 1].area ELSE current.area
        areaChange == current.area - previousArea
        daysDiff == IF i > 1 THEN daysBetween(sorted[i - 1].capturedAt, current.capturedAt) ELSE 0
    IN  [assessmentId |-> current.id,
         date |-> current.capturedAt,
         area |-> current.area,
         areaChange |-> areaChange,
         areaChangePercent |-> IF previousArea > 0 THEN RoundDiv(areaChange * 1000, previousArea) ELSE 0,
         healingRate |-> IF daysDiff > 0 THEN RoundDiv(-areaChange * 10, daysDiff) ELSE 0,
         projectedHealingDate |-> projectedHealingDate(current, areaChange, daysDiff)]

\* mutant: the entries follow the order of the list passed in
calculateHealingProgress_Unsorted(assessmentList) ==
    [i \in 1..Len(assessmentList) |-> HealingEntry(assessmentList, i)]

calculateHealingProgress(assessmentList) ==
    LET sorted == StableSort("capturedAt", assessmentList)
    IN  [i \in 1..Len(sorted) |-> HealingEntry(sorted, i)]

\* progress.slice(-3)
LastThree(progress) == SubSeq(progress, Max(1, Len(progress) - 2), Len(progress))

\* mutant: the trend follows the last entry alone
Trend_LastEntryOnly(progress) ==
    IF Len(progress) >= 2
    THEN LET last == progress[Len(progress)].areaChangePercent
         IN  IF last < -50 THEN "improving"
             ELSE IF last > 50 THEN "worsening"
             ELSE "stable"
    ELSE "stable"

\* avgChange < -5 and avgChange > 5, on the sum of the tenths of a percent
Trend(progress) ==
    IF Len(progress) >= 2
    THEN LET recentProgress == LastThree(progress)
             sum == SumSeq([i \in 1..Len(recentProgress) |-> recentProgress[i].areaChangePercent])
         IN  IF sum < -50 * Len(recentProgress) THEN "improving"
             ELSE IF sum > 50 * Len(recentProgress) THEN "worsening"
             ELSE "stable"
    ELSE "stable"

\* progress.filter(p => p.healingRate > 0).map(p => p.healingRate)
RECURSIVE PositiveRates(_)
PositiveRates(progress) ==
    IF progress = <<>> THEN <<>>
    ELSE (IF Head(progress).healingRate > 0 THEN <<Head(progress).healingRate>> ELSE <<>>)
         \o PositiveRates(Tail(progress))

calculateWoundAnalytics(woundId, assessmentList, onset, now) ==
    LET progress == calculateHealingProgress(assessmentList)
        initialArea == progress[1].area
        currentArea == progress[Len(progress)].area
        totalReduction == initialArea - currentArea
        healingRates == PositiveRates(progress)
    IN  IF Len(progress) = 0
        THEN [woundId |-> woundId, initialArea |-> 0, currentArea |-> 0,
              totalReduction |-> 0, totalReductionPercent |-> 0,
              averageHealingRate |-> 0, healingVelocity |-> 0,
              assessmentCount |-> 0, daysSinceOnset |-> 0,
              progressHistory |-> <<>>, trend |-> "stable"]
        ELSE [woundId |-> woundId,
              initialArea |-> initialArea,
              currentArea |-> currentArea,
              totalReduction |-> totalReduction,
              totalReductionPercent |-> IF initialArea > 0 THEN RoundDiv(totalReduction * 1000, initialArea) ELSE 0,
              averageHealingRate |-> IF Len(healingRates) > 0 THEN RoundDiv(SumSeq(healingRates), Len(healingRates)) ELSE 0,
              healingVelocity |-> IF Len(healingRates) > 0 THEN RoundDiv(SumSeq(healingRates) * 7, Len(healingRates) * 10) ELSE 0,
              assessmentCount |-> Len(assessmentList),
              daysSinceOnset |-> daysBetween(onset, now),
              progressHistory |-> progress,
              trend |-> Trend(progress)]

----------------------------------------------------------------------------
(* The assessments of one wound                                            *)

Assessment(id, capturedAt, area) == [id |-> id, capturedAt |-> capturedAt, area |-> area]

\* the assessments the database may hold for the wound: a baseline of 10 cm2
\* and follow-ups after 6 hours, 1, 2 and 3 weeks
AssessmentPool ==
    { Assessment(1, 0, 1000),
      Assessment(2, Days(7), 800), Assessment(3, Days(14), 600),
      Assessment(4, Days(7), 1100), Assessment(5, Days(14), 1200),
      Assessment(6, Days(7), 1010), Assessment(7, Days(14), 990),
      Assessment(8, Days(7), 940), Assessment(9, Days(14), 880),
      Assessment(10, Days(21), 999), Assessment(11, Days(14), 0),
      Assessment(12, 1, 900) }

Injective(s) == \A i, j \in 1..Len(s) : i # j => s[i] # s[j]

AssessmentListsOfLength(n) == {s \in [1..n -> AssessmentPool] : Injective(s)}

\* what getAllFromIndex may return: the records in the order of their keys
AssessmentLists == UNION {AssessmentListsOfLength(n) : n \in 0..MaxAssessments}

\* new Date(wound.onset) and new Date(), in quarters of a day
OnsetDates == {-Days(10), -6}
Today == Days(25)

\* the wound whose timeline is shown
WoundId == "wound-1"

\* analytics before the first render with assessments: null
NoAnalytics == [woundId |-> "", assessmentCount |-> -1]

----------------------------------------------------------------------------
(* State machine of the wound timeline: useAssessmentsStore and the        *)
(* analytics memo of PatientTimeline                                        *)

HealingIdle ==
    /\ hpc = "idle"
    /\ assessments = <<>>
    /\ analytics = NoAnalytics

\* loadAssessmentsForWound, run by the timeline's effect when it mounts: the
\* records of the wound, newest first
LoadAssessmentsForWound ==
    /\ hpc = "idle"
    /\ \E stored \in AssessmentLists : assessments' = StableSort("newestFirst", stored)
    /\ hpc' = "loaded"
    /\ analytics' = NoAnalytics
    /\ UNCHANGED nonHealingVars

\* addAssessment: [assessment, ...get().assessments]; the store's new array
\* invalidates the memo
AddAssessment ==
    /\ hpc # "idle"
    /\ Len(assessments) < MaxAssessments
    /\ \E assessment \in AssessmentPool :
        /\ \A i \in 1..Len(assessments) : assessments[i].id # assessment.id
        /\ assessments' = <<assessment>> \o assessments
    /\ hpc' = "loaded"
    /\ analytics' = NoAnalytics
    /\ UNCHANGED nonHealingVars

\* the analytics memo: null without assessments, else calculateWoundAnalytics
RenderAnalytics ==
    /\ hpc = "loaded"
    /\ \E onset \in OnsetDates :
        analytics' = IF Len(assessments) = 0 THEN NoAnalytics
                     ELSE calculateWoundAnalytics(WoundId, assessments, onset, Today)
    /\ hpc' = "rendered"
    /\ UNCHANGED <<assessments, nonHealingVars>>

NextHealing == LoadAssessmentsForWound \/ AddAssessment \/ RenderAnalytics

----------------------------------------------------------------------------
(* The segmentation engine: WoundSegmentationEngine's initialization       *)
(*                                                                         *)
(* One action is one browser task.  _doInitialize really yields at         *)
(* setupBackend and at buildLightweightUNet; warmUp awaits nothing, so the *)
(* assignment of this.model, the warm-up and isInitialized = true happen   *)
(* in one task, and so does the resumption of every caller that awaits the *)
(* promise.  Runs of _doInitialize are numbered; model and initPromise     *)
(* hold the number of the run that built or returned them, 0 for null.     *)

EngineConstructed ==
    [model |-> 0, isLoading |-> FALSE, isInitialized |-> FALSE, initPromise |-> 0,
     disposed |-> FALSE]

EngineIdle ==
    /\ engine = EngineConstructed
    /\ runs = <<>>
    /\ calls = <<>>

\* the promise _doInitialize returned for run r
Pending(r) == runs[r].phase \in {"backend", "build"}
Fulfilled(r) == runs[r].phase = "ready"
Rejected(r) == runs[r].phase = "failed"

\* isReady()
isReady == engine.isInitialized /\ engine.model # 0

\* a caller of the given kind ("initialize" or "segment") that goes on at
\* once, without waiting for a promise
Immediate(kind) ==
    [kind |-> kind, awaits |-> 0, status |-> "fulfilled", ready |-> isReady,
     nullModel |-> kind = "segment" /\ engine.model = 0, joinedFailure |-> FALSE]

\* a caller that awaits the promise of run r, which may be settled already
Awaiting(kind, r) ==
    [kind |-> kind, awaits |-> r,
     status |-> IF Pending(r) THEN "pending" ELSE IF Fulfilled(r) THEN "fulfilled" ELSE "rejected",
     ready |-> ~Pending(r) /\ Fulfilled(r) /\ isReady,
     nullModel |-> kind = "segment" /\ Fulfilled(r) /\ engine.model = 0,
     joinedFailure |-> Rejected(r)]

\* mutant: initialize starts _doInitialize whenever the engine is not ready
SharesPromise_Never == FALSE

\* initialize: if (this.initPromise) return this.initPromise
SharesPromise == engine.initPromise # 0

\* initialize(), for a caller of the given kind: return at once when
\* initialized, return the promise there is, or start _doInitialize, which
\* sets isLoading and runs up to `await this.setupBackend()`
Initialize(kind) ==
    IF engine.isInitialized
    THEN /\ calls' = Append(calls, Immediate(kind))
         /\ UNCHANGED <<engine, runs>>
    ELSE IF SharesPromise
    THEN /\ calls' = Append(calls, Awaiting(kind, engine.initPromise))
         /\ UNCHANGED <<engine, runs>>
    ELSE /\ Len(runs) < MaxRuns
         /\ runs' = Append(runs, [phase |-> "backend"])
         /\ engine' = [engine EXCEPT !.isLoading = TRUE, !.initPromise = Len(runs) + 1]
         /\ calls' = Append(calls, [kind |-> kind, awaits |-> Len(runs) + 1, status |-> "pending",
                                    ready |-> FALSE, nullModel |-> FALSE, joinedFailure |-> FALSE])

\* Settings.handleLoadModel, or processImage when the model is not loaded:
\* await engine.initialize()
CallInitialize ==
    /\ Len(calls) < MaxCalls
    /\ Initialize("initialize")
    /\ UNCHANGED nonEngineVars

\* segment(imageData): if (!this.isInitialized || !this.model) await
\* this.initialize(); then this.model!.predict
CallSegment ==
    /\ Len(calls) < MaxCalls
    /\ IF isReady
       THEN /\ calls' = Append(calls, Immediate("segment"))
            /\ UNCHANGED <<engine, runs>>
       ELSE Initialize("segment")
    /\ UNCHANGED nonEngineVars

\* the callers that await run r go on, the promise being settled
Settle(r, fulfilled, ready, model) ==
    [c \in 1..Len(calls) |->
        IF calls[c].awaits = r /\ calls[c].status = "pending"
        THEN [calls[c] EXCEPT
                 !.status = IF fulfilled THEN "fulfilled" ELSE "rejected",
                 !.ready = fulfilled /\ ready,
                 !.nullModel = fulfilled /\ calls[c].kind = "segment" /\ model = 0]
        ELSE calls[c]]

\* setupBackend resolved: _doInitialize goes on to buildLightweightUNet
BackendReady ==
    \E r \in 1..Len(runs) :
        /\ runs[r].phase = "backend"
        /\ runs' = [runs EXCEPT ![r].phase = "build"]
        /\ UNCHANGED <<engine, calls>>
        /\ UNCHANGED nonEngineVars

\* buildLightweightUNet resolved: this.model is set, the warm-up runs and
\* isInitialized becomes true; finally isLoading = false
ModelReady ==
    \E r \in 1..Len(runs) :
        /\ runs[r].phase = "build"
        /\ runs' = [runs EXCEPT ![r].phase = "ready"]
        /\ engine' = [engine EXCEPT !.model = r, !.isInitialized = TRUE, !.isLoading = FALSE]
        /\ calls' = Settle(r, TRUE, TRUE, r)
        /\ UNCHANGED nonEngineVars

\* _doInitialize throws: no backend is available, buildLightweightUNet
\* rejects, or the warm-up inference throws after this.model was set;
\* finally isLoading = false
InitFails ==
    \E r \in 1..Len(runs), step \in {"setupBackend", "buildLightweightUNet", "warmUp"} :
        /\ runs[r].phase = IF step = "setupBackend" THEN "backend" ELSE "build"
        /\ runs' = [runs EXCEPT ![r].phase = "failed"]
        /\ engine' = [engine EXCEPT !.model = IF step = "warmUp" THEN r ELSE @,
                                    !.isLoading = FALSE]
        /\ calls' = Settle(r, FALSE, FALSE, engine.model)
        /\ UNCHANGED nonEngineVars

\* mutant: dispose leaves isInitialized as it is
Disposed_KeepsInitialized ==
    [engine EXCEPT !.model = 0, !.initPromise = 0, !.disposed = TRUE]

\* dispose()
Disposed ==
    [engine EXCEPT !.model = 0, !.isInitialized = FALSE, !.initPromise = 0, !.disposed = TRUE]

\* Settings.handleUnloadModel: engine.dispose()
Dispose ==
    /\ engine' = Disposed
    /\ UNCHANGED <<runs, calls>>
    /\ UNCHANGED nonEngineVars

NextEngine ==
    \/ CallInitialize \/ CallSegment \/ BackendReady \/ ModelReady \/ InitFails
    \/ Dispose

----------------------------------------------------------------------------
(* The service worker: install, activate and the fetch handler             *)

STATIC_ASSETS == {"/", "/index.html", "/manifest.webmanifest", "/favicon.svg"}

\* a request: extension is the ending of the URL's path, host is "origin"
\* for the application's origin, "cdn" for a host whose name contains cdn,
\* tfhub or unpkg, and "other" for any other host
Request(method, url, extension, destination, mode, host) ==
    [method |-> method, url |-> url, extension |-> extension,
     destination |-> destination, mode |-> mode, host |-> host]

\* the requests of a page of the application: navigations to "/" and to a
\* route of the single-page application, its script, an image, a data
\* request, a library from a CDN, a font from another origin, and a POST
Requests ==
    { Request("GET", "/", "", "document", "navigate", "origin"),
      Request("GET", "/wounds", "", "document", "navigate", "origin"),
      Request("GET", "/assets/index.js", ".js", "script", "no-cors", "origin"),
      Request("GET", "/icons/icon.png", ".png", "image", "no-cors", "origin"),
      Request("GET", "/api/status", "", "", "cors", "origin"),
      Request("GET", "https://cdn.example/tf.min.js", ".js", "script", "cors", "cdn"),
      Request("GET", "https://fonts.example/inter.woff2", ".woff2", "font", "cors", "other"),
      Request("POST", "/api/status", "", "", "cors", "origin") }

\* what fetch(request) does: a response with ok = true, a response with
\* ok = false (404, 500), or a rejection (no network)
NetworkOutcomes == {"ok", "notOk", "rejects"}

NoFetch == [request |-> Request("", "", "", "", "", ""), network |-> "", response |-> "none"]

ServiceWorkerIdle ==
    /\ swpc = "installing"
    /\ cache = {}
    /\ lastFetch = NoFetch

\* the response fetch(request) resolved with; only ok responses are cached
NetworkResponse(network) == IF network = "ok" THEN "network-ok" ELSE "network-not-ok"

\* networkFirstStrategy.  caches.match('/') is a promise and so truthy:
\* `caches.match('/') || createOfflineResponse()` is that promise, which
\* resolves with the cached page or with undefined.
networkFirstStrategy(request, network) ==
    IF network # "rejects"
    THEN [response |-> NetworkResponse(network), put |-> network = "ok"]
    ELSE [response |-> IF request.url \in cache THEN "cached"
                       ELSE IF request.mode = "navigate"
                            THEN (IF "/" \in cache THEN "cached" ELSE "undefined")
                            ELSE "offline-503",
          put |-> FALSE]

cacheFirstStrategy(request, network) ==
    IF request.url \in cache THEN [response |-> "cached", put |-> FALSE]
    ELSE IF network # "rejects"
    THEN [response |-> NetworkResponse(network), put |-> network = "ok"]
    ELSE [response |-> "offline-503", put |-> FALSE]

\* staleWhileRevalidate.  fetchPromise is a promise and so truthy:
\* `cachedResponse || fetchPromise || createOfflineResponse()` is the cached
\* response or that promise, which resolves with the network response or,
\* after .catch(() => null), with null.
staleWhileRevalidate(request, network) ==
    [response |-> IF request.url \in cache THEN "cached"
                  ELSE IF network # "rejects" THEN NetworkResponse(network)
                  ELSE "null",
     put |-> network = "ok"]

\* the request is one the fetch handler answers with respondWith: a GET of
\* the application's origin or of a CDN host
Intercepted(request) == request.method = "GET" /\ request.host \in {"origin", "cdn"}

\* the strategy the fetch handler chooses by destination and path
Strategy(request) ==
    IF request.destination = "document" \/ request.url = "/" THEN "networkFirst"
    ELSE IF \/ request.destination \in {"script", "style", "font"}
            \/ request.extension \in {".js", ".css", ".woff2"}
         THEN "staleWhileRevalidate"
    ELSE IF \/ request.destination = "image"
            \/ request.extension \in {".png", ".jpg", ".svg", ".webp"}
         THEN "cacheFirst"
    ELSE "staleWhileRevalidate"

Respond(request, network) ==
    CASE Strategy(request) = "networkFirst" -> networkFirstStrategy(request, network)
      [] Strategy(request) = "cacheFirst" -> cacheFirstStrategy(request, network)
      [] Strategy(request) = "staleWhileRevalidate" -> staleWhileRevalidate(request, network)

\* install: cache.addAll(STATIC_ASSETS), skipWaiting; activate: the caches of
\* other versions are deleted, clients.claim
InstallAndActivate ==
    /\ swpc = "installing"
    /\ cache' = STATIC_ASSETS
    /\ swpc' = "active"
    /\ UNCHANGED lastFetch
    /\ UNCHANGED nonServiceWorkerVars

\* a fetch event: the handler returns without respondWith for what it does
\* not intercept, else it answers with its strategy's result
Fetch ==
    /\ swpc = "active"
    /\ \E request \in Requests, network \in NetworkOutcomes :
        IF Intercepted(request)
        THEN /\ lastFetch' = [request |-> request, network |-> network,
                              response |-> Respond(request, network).response]
             /\ cache' = IF Respond(request, network).put THEN cache \cup {request.url} ELSE cache
        ELSE /\ lastFetch' = [request |-> request, network |-> network,
                              response |-> "not-intercepted"]
             /\ UNCHANGED cache
    /\ UNCHANGED swpc
    /\ UNCHANGED nonServiceWorkerVars

NextServiceWorker == InstallAndActivate \/ Fetch

----------------------------------------------------------------------------
(* Claims about the calibration engine                                     *)

\* what each hypothesis yields on the captured frame, whether or not it is run
RulerOutcome == detectRuler(frame)
CircleOutcome == detectCircle(frame)
GridOutcome == detectGrid(frame)

BestConfidence == Max(RulerOutcome.confidence, Max(CircleOutcome.confidence, GridOutcome.confidence))

NoneAccepted ==
    /\ ~(RulerOutcome.detected /\ RulerOutcome.confidence > 800)
    /\ ~(CircleOutcome.detected /\ CircleOutcome.confidence > 800)
    /\ ~(GridOutcome.detected /\ GridOutcome.confidence > 800)

\* C2 (as claimed): every CalibrationResult returned by detectCalibration (ruler,
\* circle or grid path) or by manualCalibration has pixelsPerCm > 0 when detected.
C2_DetectedHasPositiveScale ==
    cpc \in {"done", "manual"} /\ calibration.detected => calibration.pixelsPerCm > 0

\* C3: detectCalibration runs the hypotheses in the order ruler, circle, grid and
\* returns the first that is detected with confidence > 0.8; when none is, the
\* returned candidate is one of the three and carries their maximum confidence.
C3_PriorityOrder ==
    /\ \E n \in 0..3 : evaluated = SubSeq(<<"ruler", "circle", "grid">>, 1, n)
    /\ cpc = "done" =>
          IF RulerOutcome.detected /\ RulerOutcome.confidence > 800
          THEN calibration = RulerOutcome /\ evaluated = <<"ruler">>
          ELSE IF CircleOutcome.detected /\ CircleOutcome.confidence > 800
          THEN calibration = CircleOutcome /\ evaluated = <<"ruler", "circle">>
          ELSE IF GridOutcome.detected /\ GridOutcome.confidence > 800
          THEN calibration = GridOutcome /\ evaluated = <<"ruler", "circle", "grid">>
          ELSE /\ calibration \in {RulerOutcome, CircleOutcome, GridOutcome}
               /\ calibration.confidence = BestConfidence
               /\ evaluated = <<"ruler", "circle", "grid">>

\* a frame with a valid ruler (confidence in (0.8, 1)) and a valid circle (0.85):
\* the ruler result is returned
C3_Witness ==
    /\ cpc = "done"
    /\ RulerOutcome.detected /\ RulerOutcome.confidence > 800 /\ RulerOutcome.confidence < 1000
    /\ CircleOutcome.detected /\ CircleOutcome.confidence = 850
    /\ calibration.markerType = "ruler"

\* C4: when no hypothesis exceeds 0.8 and the best confidence is 0, the call
\* returns detected = false with pixelsPerCm = 0.
C4_FailedWhenBestIsZero ==
    cpc = "done" /\ NoneAccepted /\ BestConfidence = 0 =>
        calibration.detected = FALSE /\ calibration.pixelsPerCm = 0

\* a ruler that is detected with confidence 0 (uneven ticks), no circle, no grid
C4_Witness ==
    /\ cpc = "done" /\ NoneAccepted /\ BestConfidence = 0
    /\ rulerResult.detected /\ rulerResult.confidence = 0
    /\ calibration.detected = FALSE

\* C9: manualCalibration(p1, p2, d) with d > 0 returns detected = true,
\* confidence = 1.0 and pixelsPerCm = |p1 - p2| / d (here: that quotient rounded
\* down to the hundredth), and runs no marker detection.
C9_ManualCalibration ==
    cpc = "manual" =>
        LET dx == manualArgs.point2.x - manualArgs.point1.x
            dy == manualArgs.point2.y - manualArgs.point1.y
            scaled == calibration.pixelsPerCm * manualArgs.distanceCm
        IN  /\ calibration.detected = TRUE
            /\ calibration.confidence = 1000
            /\ scaled * scaled <= (dx * dx + dy * dy) * 10000
            /\ (scaled + manualArgs.distanceCm) * (scaled + manualArgs.distanceCm) > (dx * dx + dy * dy) * 10000
            /\ evaluated = <<>>
            /\ rulerResult = NoResult /\ circleResult = NoResult /\ gridResult = NoResult

\* two points off a common axis, a known distance of more than 1 cm
C9_Witness ==
    /\ cpc = "manual"
    /\ manualArgs.point1.x # manualArgs.point2.x
    /\ manualArgs.point1.y # manualArgs.point2.y
    /\ manualArgs.distanceCm > 1
    /\ calibration.pixelsPerCm > 0

----------------------------------------------------------------------------
(* Claims about the quality check engine                                   *)

\* a report has been returned for (image, qcal) under the current thresholds
Reported == qpc \in {"checked", "advised"}

\* C5: runQualityChecks returns passed = true exactly when blur.passed,
\* lighting.passed, calibration.detected, calibration.confidence >=
\* minCalibrationConfidence and perspective.corrected all hold.
C5_AggregateIsConjunction ==
    Reported =>
        (report.passed <=>
            /\ report.blur.passed
            /\ report.lighting.passed
            /\ report.calibration.detected
            /\ report.calibration.confidence >= thresholds.minCalibrationConfidence
            /\ report.perspective.corrected)

\* a report that fails on the perspective check alone
C5_Witness ==
    /\ Reported
    /\ report.blur.passed /\ report.lighting.passed /\ report.calibration.detected
    /\ report.calibration.confidence >= thresholds.minCalibrationConfidence
    /\ ~report.perspective.corrected
    /\ ~report.passed

\* the calibrations the perspective check does not measure
NotMeasurable == qcal.markerType # "ruler" \/ Len(qcal.referencePoints) < 3

\* C6 (as claimed): the perspective check returns distortion = 0 and corrected =
\* false whenever markerType is not ruler or there are fewer than 3 reference
\* points (detected circles and grids and two-point manual results included).
C6_NotMeasurableIsUncorrected ==
    Reported /\ NotMeasurable =>
        report.perspective.distortion = 0 /\ report.perspective.corrected = FALSE

\* C6 (amended): for such a calibration distortion = 0; corrected = false when the
\* calibration is not detected or has fewer than 2 reference points, and
\* otherwise corrected = (0 <= maxPerspectiveDistortion), which is true under the
\* default limit of 15 degrees.
C6_NotMeasurableHasNoDistortion ==
    Reported /\ NotMeasurable =>
        /\ report.perspective.distortion = 0
        /\ report.perspective.corrected <=>
              /\ qcal.detected
              /\ Len(qcal.referencePoints) >= 2
              /\ 0 <= thresholds.maxPerspectiveDistortion

\* a detected grid, reported with corrected = true
C6_Witness ==
    /\ Reported /\ NotMeasurable
    /\ qcal.detected
    /\ qcal.markerType = "grid"
    /\ report.perspective.corrected

AverageBrightnessIs(img, v) ==
    /\ PixelCount(img) > 0
    /\ SumSeq([i \in 1..PixelCount(img) |-> Brightness(img.data[i])]) = v * PixelCount(img)

\* C7: for every image whose average luma brightness is 30, runQualityChecks
\* yields passed = false and lighting.issues contains the "too dark" issue.
C7_DarkImageFails ==
    Reported /\ AverageBrightnessIs(image, 30) =>
        /\ report.passed = FALSE
        /\ Includes(report.lighting.issues, "Image is too dark")

\* a dark image whose blur and calibration checks pass
C7_Witness ==
    /\ Reported /\ AverageBrightnessIs(image, 30)
    /\ report.blur.passed
    /\ report.calibration.detected
    /\ report.calibration.confidence >= thresholds.minCalibrationConfidence
    /\ report.perspective.corrected
    /\ Len(report.lighting.issues) = 2
    /\ ~report.passed

\* some advice of the list adviceList is among the recommendations
Advises(adviceList) == \E i \in 1..Len(adviceList) : Includes(recommendations, adviceList[i])

\* C8 (as claimed): getRecommendations gives at least one advice string for each
\* failing sub-check (blur; lighting, whatever its issues; calibration not
\* detected or below the confidence threshold; perspective), so the list is not
\* empty when report.passed = false.
C8_AdvicePerFailingCheck ==
    qpc = "advised" =>
        /\ ~report.blur.passed => Advises(BlurAdvice)
        /\ ~report.lighting.passed => Advises(DarkAdvice \o BrightAdvice \o ShadowAdvice)
        /\ (~report.calibration.detected
                \/ report.calibration.confidence < thresholds.minCalibrationConfidence)
              => Advises(CalibrationAdvice)
        /\ ~report.perspective.corrected => Advises(PerspectiveAdvice)
        /\ ~report.passed => recommendations # <<>>

\* the reports for the same image and calibration under thresholds t
ReportUnder(t) == runQualityChecks(image, qcal, t)

\* C10: changing one option changes only its own decision (and with it the
\* aggregate): minBlurScore only blur.passed, minLightingScore only
\* lighting.passed, minCalibrationConfidence only the calibration term of the
\* aggregate, maxPerspectiveDistortion only perspective.corrected; and the
\* options a constructor or setThresholds argument does not name keep their
\* default, respectively previous, values.
C10_OptionsGateIndependently ==
    /\ qpc = "checked" =>
          \A k \in OptionNames : \A v \in OptionValues[k] :
              LET t == [thresholds EXCEPT ![k] = v]
                  r == ReportUnder(t)
              IN  /\ r.calibration = report.calibration
                  /\ r.blur.score = report.blur.score /\ r.blur.scoreIsNaN = report.blur.scoreIsNaN
                  /\ r.lighting.score = report.lighting.score /\ r.lighting.issues = report.lighting.issues
                  /\ r.perspective.distortion = report.perspective.distortion
                  /\ k # "minBlurScore" => r.blur.passed = report.blur.passed
                  /\ k # "minLightingScore" => r.lighting.passed = report.lighting.passed
                  /\ k # "maxPerspectiveDistortion" => r.perspective.corrected = report.perspective.corrected
                  /\ r.passed <=>
                        /\ r.blur.passed /\ r.lighting.passed /\ r.perspective.corrected
                        /\ r.calibration.detected
                        /\ r.calibration.confidence >= t.minCalibrationConfidence
    /\ \A partial \in PartialThresholds : \A k \in OptionNames \ DOMAIN partial :
          /\ setThresholds(thresholds, partial)[k] = thresholds[k]
          /\ constructThresholds(partial)[k] = DEFAULT_THRESHOLDS[k]
    /\ \A partial \in PartialThresholds : \A k \in DOMAIN partial :
          /\ setThresholds(thresholds, partial)[k] = partial[k]
          /\ constructThresholds(partial)[k] = partial[k]

\* a report in which each option, changed alone, flips its own decision
C10_Witness ==
    /\ qpc = "checked"
    /\ thresholds # DEFAULT_THRESHOLDS
    /\ \E v \in OptionValues["minBlurScore"] :
          ReportUnder([thresholds EXCEPT !["minBlurScore"] = v]).blur.passed # report.blur.passed
    /\ \E v \in OptionValues["minLightingScore"] :
          ReportUnder([thresholds EXCEPT !["minLightingScore"] = v]).lighting.passed # report.lighting.passed
    /\ \E v \in OptionValues["maxPerspectiveDistortion"] :
          ReportUnder([thresholds EXCEPT !["maxPerspectiveDistortion"] = v]).perspective.corrected
              # report.perspective.corrected
    /\ \E v \in OptionValues["minCalibrationConfidence"] :
          (report.calibration.confidence >= v) # (report.calibration.confidence >= thresholds.minCalibrationConfidence)

\* C25 (as claimed): for every image, including a uniform image that has no
\* nonzero Laplacian response, the blur check returns a defined numeric score
\* within [0, 1].
C25_BlurScoreDefined ==
    qpc \in {"checked", "advised"} =>
        /\ ~report.blur.scoreIsNaN
        /\ report.blur.score \in 0..1000

----------------------------------------------------------------------------
(* Claims about the measurement engine                                     *)

Unusable(cal) == ~cal.detected \/ cal.pixelsPerCm <= 0

\* C1: calculateMeasurements fails closed: called with a calibration that
\* is not detected or whose pixelsPerCm is not positive, it throws the
\* "Valid calibration required" error and returns no measurement, neither
\* a zero nor a non-finite one; and it throws only for such a calibration.
C1_FailsClosed ==
    mpc # "idle" =>
        /\ Unusable(mcal) =>
              mpc = "threw" /\ merror = CalibrationRequired /\ measurement = NoMeasurement
        /\ mpc = "threw" => Unusable(mcal)

\* a call with a calibration that is detected but has pixelsPerCm = 0, made
\* for a segmentation with wound pixels and a proper contour
C1_Witness ==
    /\ mpc = "threw"
    /\ mcal.detected /\ mcal.pixelsPerCm = 0
    /\ calculateAreaFromMask(segmentation.mask) > 0
    /\ Len(segmentation.contour) >= 3

----------------------------------------------------------------------------
(* Claims about the capture pipeline                                       *)

Ran(f, stage) == \E i \in 1..Len(frames[f].ran) : frames[f].ran[i] = stage

\* C11: a downstream stage is never invoked after an upstream stage failed:
\* segmentation and measurement are never run for a captured frame whose
\* calibration has detected = false, and measurement is never run for a
\* frame whose segmentation failed.
C11_NoStageAfterFailure ==
    \A f \in 1..Len(frames) :
        /\ ~frames[f].calibration.detected => ~Ran(f, "segmentation") /\ ~Ran(f, "measurement")
        /\ frames[f].segmentationFailed => ~Ran(f, "measurement")

\* one frame was captured without a calibration and was left unprocessed,
\* another one's segmentation failed
C11_Witness ==
    /\ \E f \in 1..Len(frames) :
          ~frames[f].calibration.detected /\ frames[f].stage = "unprocessed"
    /\ \E f \in 1..Len(frames) :
          frames[f].segmentationFailed /\ frames[f].stage = "failed"

InPipeline == {f \in 1..Len(frames) : frames[f].stage = "segmentation"}

\* C12 (as claimed): at most one frame is in the processing pipeline at any
\* time: under any sequence of capture and retake actions, processing of a
\* new frame never starts before the processing of the previous one finished.
C12_OneFrameInPipeline == Cardinality(InPipeline) <= 1

\* the camera view was shown and is closed
CameraClosed == mounts > 0 /\ ~capture.showCamera

\* every live loop belongs to the instance on screen
NoStaleLoop == \A i \in 1..Len(liveLoops) : Mounted(liveLoops[i].instance)

\* C13 (as claimed): every live-preview calibration loop the camera view
\* started is cancelled when the view closes: after the close, eventually no
\* further detection iteration of a closed view is scheduled.
C13_LoopsCancelledOnClose == CameraClosed ~> NoStaleLoop

\* C26 (as claimed): every saved assessment's measurement and segmentation
\* were computed from the same captured frame and calibration that are stored
\* in that assessment: a measurement of an earlier frame is never saved
\* together with the image or calibration of a later frame.
C26_SavedFromOneFrame ==
    \A i \in 1..Len(saved) :
        /\ saved[i].segmentationResult = saved[i].originalImage
        /\ saved[i].measurement = saved[i].originalImage

----------------------------------------------------------------------------
(* Claims about the healing analytics                                      *)

\* the timeline shows analytics computed from the assessments of the store
Analysed == hpc = "rendered" /\ analytics # NoAnalytics

History == analytics.progressHistory

AreasOf(progress) == [i \in 1..Len(progress) |-> progress[i].area]

\* the sum of areaChangePercent over the last k entries, in tenths
RecentPercentSum(progress, k) ==
    SumSeq([i \in 1..k |-> progress[Len(progress) - k + i].areaChangePercent])

Classified(sum, k) ==
    IF sum < -50 * k THEN "improving"
    ELSE IF sum > 50 * k THEN "worsening"
    ELSE "stable"

EveryStepDecreasesOver5Percent(progress) ==
    \A i \in 2..Len(progress) :
        (progress[i - 1].area - progress[i].area) * 100 > 5 * progress[i - 1].area

\* C15 (as claimed): whenever a wound has at least two assessments and its
\* area decreased by more than 5% between every pair of consecutive
\* assessments, the analytics report trend = improving.
C15_SteadyDecreaseIsImproving ==
    (Analysed /\ Len(History) >= 2 /\ EveryStepDecreasesOver5Percent(History))
        => analytics.trend = "improving"

\* progress entry i restates assessment a
EntryOf(entry, a) ==
    entry.assessmentId = a.id /\ entry.date = a.capturedAt /\ entry.area = a.area

\* value, in units of 1/scale, is numerator / denominator rounded to the
\* nearest unit (denominator > 0)
IsRounded(value, numerator, denominator) ==
    2 * Abs(value * denominator - numerator) <= denominator

\* C16: calculateHealingProgress returns exactly one entry per assessment, in
\* ascending capture-time order; the first entry has areaChange = 0,
\* areaChangePercent = 0 and healingRate = 0; every later entry has
\* areaChange = area - previous area, areaChangePercent = areaChange /
\* previousArea * 100 (0 when previousArea = 0) and healingRate = -areaChange
\* / dayGap when the day gap to the previous assessment is positive, else 0
\* (percentages as reported to one decimal, rates to three).
C16_OneEntryPerAssessment ==
    Analysed =>
        /\ Len(History) = Len(assessments)
        /\ \A j \in 1..Len(assessments) :
            Cardinality({i \in 1..Len(History) : EntryOf(History[i], assessments[j])}) = 1
        /\ \A i \in 2..Len(History) : History[i - 1].date <= History[i].date
        /\ History[1].areaChange = 0
        /\ History[1].areaChangePercent = 0
        /\ History[1].healingRate = 0
        /\ \A i \in 2..Len(History) :
            LET previousArea == History[i - 1].area
                dayGap == daysBetween(History[i - 1].date, History[i].date)
            IN  /\ History[i].areaChange = History[i].area - previousArea
                /\ IF previousArea = 0 THEN History[i].areaChangePercent = 0
                   ELSE IsRounded(History[i].areaChangePercent, History[i].areaChange * 1000, previousArea)
                /\ IF dayGap > 0
                   THEN IsRounded(History[i].healingRate, -History[i].areaChange * 10, dayGap)
                   ELSE History[i].healingRate = 0

\* three assessments, handed over newest first, the wound shrinking between
\* the last two, with one entry after a wound of area 0 or a gap of 0 days
C16_Witness ==
    /\ Analysed
    /\ Len(History) = 3
    /\ assessments[1].capturedAt > assessments[3].capturedAt
    /\ History[3].healingRate > 0
    /\ \/ History[1].area = 0
       \/ daysBetween(History[1].date, History[2].date) = 0

\* C17 (as claimed): a progress entry carries a projectedHealingDate if and
\* only if its reported healingRate > 0 and its area > 0, and the date is then
\* the entry's capture date plus ceil(area / healingRate) days.
C17_ProjectionFromReportedRate ==
    Analysed =>
        \A i \in 1..Len(History) :
            LET entry == History[i]
            IN  /\ entry.projectedHealingDate # <<>> <=> (entry.healingRate > 0 /\ entry.area > 0)
                /\ entry.projectedHealingDate # <<>> =>
                    entry.projectedHealingDate[1] = entry.date + Days(CeilDiv(entry.area * 10, entry.healingRate))

\* C17 (amended): a progress entry carries a projectedHealingDate if and only
\* if it follows another entry at a positive day gap, its area is below that
\* entry's area and above 0, i.e. the healing rate before rounding,
\* -areaChange / dayGap, is positive; the date is then the capture date plus
\* ceil(area / (-areaChange / dayGap)) days.
C17_ProjectionFromExactRate ==
    Analysed =>
        \A i \in 1..Len(History) :
            LET entry == History[i]
                dayGap == IF i > 1 THEN daysBetween(History[i - 1].date, entry.date) ELSE 0
                healing == dayGap > 0 /\ entry.areaChange < 0
            IN  /\ entry.projectedHealingDate # <<>> <=> (healing /\ entry.area > 0)
                /\ entry.projectedHealingDate # <<>> =>
                    entry.projectedHealingDate[1] = entry.date + Days(CeilDiv(entry.area * dayGap, -entry.areaChange))

\* an entry whose healing rate is reported as 0.000 and that carries a date
C17_Witness ==
    /\ Analysed
    /\ \E i \in 1..Len(History) :
        /\ History[i].healingRate = 0
        /\ History[i].projectedHealingDate # <<>>

\* the lists that hold the same assessments as list, in any order
PermutationsOf(list) ==
    {p \in [1..Len(list) -> {list[i] : i \in 1..Len(list)}] : Injective(p)}

\* the analytics of the list agree with the analytics shown
SameAnalytics(list) ==
    LET other == calculateWoundAnalytics(WoundId, list, Today, Today)
    IN  /\ calculateHealingProgress(list) = History
        /\ other.progressHistory = History
        /\ other.initialArea = analytics.initialArea
        /\ other.currentArea = analytics.currentArea
        /\ other.trend = analytics.trend

DistinctCaptureTimes(list) ==
    \A i, j \in 1..Len(list) : i # j => list[i].capturedAt # list[j].capturedAt

\* C18 (as claimed): calculateHealingProgress and calculateWoundAnalytics
\* depend only on the set of assessments, not on the order of the list passed
\* in: every permutation of the same assessments yields the same progress
\* history, initialArea, currentArea and trend.
C18_OrderIndependent ==
    Analysed => \A p \in PermutationsOf(assessments) : SameAnalytics(p)

\* C18 (amended): when no two assessments have the same capture time, every
\* permutation of the same assessments yields the same progress history,
\* initialArea, currentArea and trend.
C18_OrderIndependentWithoutTies ==
    (Analysed /\ DistinctCaptureTimes(assessments))
        => \A p \in PermutationsOf(assessments) : SameAnalytics(p)

\* three assessments with distinct capture times, handed over in an order
\* that is neither ascending nor descending
C18_Witness ==
    /\ Analysed
    /\ Len(assessments) = 3
    /\ DistinctCaptureTimes(assessments)
    /\ assessments[1].capturedAt < assessments[2].capturedAt
    /\ assessments[3].capturedAt < assessments[2].capturedAt

----------------------------------------------------------------------------
(* Claims about areas and hulls                                            *)

\* the wound pixels of the mask are exactly an n-by-n square
IsSquareForeground(mask, n) ==
    \E ox \in 0..(mask.width - n), oy \in 0..(mask.height - n) :
        \A i \in 1..(mask.width * mask.height) :
            mask.data[i] > 127 <=>
                /\ (i - 1) % mask.width \in ox..(ox + n - 1)
                /\ (i - 1) \div mask.width \in oy..(oy + n - 1)

\* the calibration of the call has n pixels to the centimetre and the mask
\* of the call is an n-by-n square, for some n > 0
UnitSquareCall ==
    /\ mpc = "returned"
    /\ \E n \in 1..Max(MaskWidth, MaskHeight) :
        /\ mcal.pixelsPerCm = 100 * n
        /\ IsSquareForeground(segmentation.mask, n)

\* C19: for every integer pixelsPerCm = n > 0 and a mask whose foreground is
\* exactly an n-by-n pixel square, calculateMeasurements returns area = 1.0
\* cm2; the area is the number of mask pixels above the foreground threshold
\* divided by pixelsPerCm squared (reported to two decimals).
C19_UnitSquareArea ==
    /\ UnitSquareCall => measurement.area = 100
    /\ mpc = "returned" =>
        IsRounded(measurement.area,
                  Cardinality({i \in 1..(segmentation.mask.width * segmentation.mask.height) :
                                  segmentation.mask.data[i] > 127}) * 1000000,
                  mcal.pixelsPerCm * mcal.pixelsPerCm)

\* the call returned 1.00 cm2 for a square of at least 2 by 2 pixels
C19_Witness ==
    /\ UnitSquareCall
    /\ mcal.pixelsPerCm >= 200
    /\ measurement.area = 100

PointsOf(points) == {points[i] : i \in 1..Len(points)}

\* the hull calculateLengthWidth computed for the contour of the call
ContourHull == convexHull(segmentation.contour)

\* C20: convexHull is idempotent as a set: for every point set
\* P, convexHull(convexHull(P)) contains exactly the same points as
\* convexHull(P).
C20_HullIdempotent ==
    mpc = "returned" => PointsOf(convexHull(ContourHull)) = PointsOf(ContourHull)

\* a contour whose lowest point was not its first and of which the scan
\* dropped a point and kept at least three
C20_Witness ==
    /\ mpc = "returned"
    /\ Len(ContourHull) >= 3
    /\ Len(ContourHull) < Len(segmentation.contour)
    /\ ContourHull[1] # segmentation.contour[1]

\* the reference hull: Andrew's monotone chain over the points sorted by x,
\* then y; Chain pushes point after point, popping what is not a left turn
RECURSIVE Chain(_, _)
Chain(points, hull) ==
    IF points = <<>> THEN hull
    ELSE IF Len(hull) > 1 /\ crossProduct(hull[Len(hull) - 1], hull[Len(hull)], Head(points)) <= 0
         THEN Chain(points, SubSeq(hull, 1, Len(hull) - 1))
         ELSE Chain(Tail(points), Append(hull, Head(points)))

Reversed(s) == [i \in 1..Len(s) |-> s[Len(s) + 1 - i]]

\* the vertices of the convex hull of the points, counter-clockwise
TrueHull(points) ==
    LET sorted == StableSort("xy", points)
        lower == Chain(sorted, <<>>)
        upper == Chain(Reversed(sorted), <<>>)
    IN  SubSeq(lower, 1, Len(lower) - 1) \o SubSeq(upper, 1, Len(upper) - 1)

\* twice the signed area of the polygon (shoelace formula)
TwiceArea(polygon) ==
    SumSeq([i \in 1..Len(polygon) |->
               LET p == polygon[i]
                   q == polygon[(i % Len(polygon)) + 1]
               IN  p.x * q.y - q.x * p.y])

Collinear(points) ==
    \A i, j, k \in 1..Len(points) : crossProduct(points[i], points[j], points[k]) = 0

\* the area of the axis-aligned bounding box of the points
BoundingBoxArea(points) ==
    LET xs == [i \in 1..Len(points) |-> points[i].x]
        ys == [i \in 1..Len(points) |-> points[i].y]
    IN  (MaxOf(xs) - MinOf(xs)) * (MaxOf(ys) - MinOf(ys))

\* the rectangle minAreaRect chose for the contour of the call, before the
\* square roots: its area is spanX * spanY / len2 (0 for a hull of fewer
\* than 3 points)
ContourRect ==
    LET hull == convexHull(segmentation.contour)
    IN  IF Len(hull) < 3 THEN [spanX |-> 0, spanY |-> 0, len2 |-> 1, edge |-> 0]
        ELSE BestRectFrom(hull, 2, EdgeRect(hull, 1))

ProperContour ==
    /\ mpc = "returned"
    /\ Len(segmentation.contour) >= 3
    /\ ~Collinear(segmentation.contour)

\* C21 (as claimed): for every contour of at least 3 non-collinear points, the
\* area of the rectangle returned by minAreaRect(convexHull(contour)) is at
\* least the true area of the contour's convex hull and at most the area of
\* the axis-aligned bounding box of the contour points.
C21_RectBetweenHullAndBox ==
    ProperContour =>
        /\ 2 * ContourRect.spanX * ContourRect.spanY
              >= TwiceArea(TrueHull(segmentation.contour)) * ContourRect.len2
        /\ ContourRect.spanX * ContourRect.spanY
              <= BoundingBoxArea(segmentation.contour) * ContourRect.len2

\* C24 (as claimed): for every contour of at least 3 points, in whatever
\* order the points are given, the polygon returned by convexHull is convex
\* and contains every input point inside it or on its boundary.
C24_HullConvexAndContaining ==
    (mpc = "returned" /\ Len(segmentation.contour) >= 3) =>
        LET hull == convexHull(segmentation.contour)
            n == Len(hull)
        IN  \A i \in 1..n :
                /\ crossProduct(hull[i], hull[(i % n) + 1], hull[((i + 1) % n) + 1]) >= 0
                /\ \A k \in 1..Len(segmentation.contour) :
                       crossProduct(hull[i], hull[(i % n) + 1], segmentation.contour[k]) >= 0

\* the call was made with a calibration that passes the guard
ValidCalibrationCall == mpc # "idle" /\ mcal.detected /\ mcal.pixelsPerCm > 0

\* C22: with a valid calibration, calculateMeasurements never throws on a
\* degenerate contour (empty, fewer than 3 points, all points identical or
\* all points collinear); it returns length = 0 and width = 0 for it.
C22_DegenerateContourGivesZero ==
    (ValidCalibrationCall /\ (Len(segmentation.contour) < 3 \/ Collinear(segmentation.contour))) =>
        /\ mpc # "threw"
        /\ measurement.length = 0
        /\ measurement.width = 0

\* a call for a contour of three distinct points on one line, not given in
\* their order along the line
C22_Witness ==
    /\ ValidCalibrationCall
    /\ segmentation.contour = <<Point(1, 1), Point(2, 2), Point(0, 0)>>
    /\ measurement.length = 0
    /\ measurement.perimeter > 0

\* C23 (as claimed): a measurement whose area, length and width are all 0 is
\* never reported as valid: validateMeasurement does not return isValid =
\* true with an empty warning list for it.
C23_ZeroMeasurementNotValid ==
    (mpc = "validated" /\ measurement.area = 0 /\ measurement.length = 0 /\ measurement.width = 0)
        => ~(validation.isValid /\ validation.warnings = <<>>)

----------------------------------------------------------------------------
(* Claims about the segmentation engine                                    *)

\* C27: in every reachable state of the engine, under any interleaving of
\* initialize, segment and dispose (including a dispose issued while an
\* initialization is in flight), isInitialized = true implies the model is
\* non-null, and segment never uses a null model.
C27_InitializedHasModel ==
    /\ engine.isInitialized => engine.model # 0
    /\ \A c \in 1..Len(calls) : ~calls[c].nullModel

\* dispose was called while run 1 was in flight, the run went on to make the
\* engine ready, and a segment call that awaited it has used the model
C27_Witness ==
    /\ engine.disposed
    /\ engine.isInitialized
    /\ engine.initPromise = 0
    /\ engine.model = 1
    /\ \E c \in 1..Len(calls) :
        calls[c].kind = "segment" /\ calls[c].awaits = 1 /\ calls[c].status = "fulfilled"

\* C28: calls to initialize() made while an initialization is already in
\* flight share that single initialization: without an intervening dispose
\* _doInitialize runs, and so the model is built, at most once, and every
\* caller goes on only when the engine is ready.
C28_SharedInitialization ==
    /\ ~engine.disposed => Len(runs) <= 1
    /\ \A c \in 1..Len(calls) : calls[c].status = "fulfilled" => calls[c].ready

\* an initialize call and a segment call awaited the same run, which made
\* the engine ready
C28_Witness ==
    /\ ~engine.disposed
    /\ Len(calls) = 2
    /\ calls[1].kind = "initialize" /\ calls[2].kind = "segment"
    /\ calls[1].awaits = 1 /\ calls[2].awaits = 1
    /\ calls[1].status = "fulfilled" /\ calls[2].status = "fulfilled"
    /\ calls[2].ready

\* C29 (as claimed): after an initialize() that failed, a later initialize()
\* or segment() call starts a new initialization attempt instead of returning
\* the earlier failure.
C29_FailureIsRetried ==
    \A c \in 1..Len(calls) : ~calls[c].joinedFailure

----------------------------------------------------------------------------
(* Claims about the service worker                                         *)

\* C30 (as claimed): every GET request the service worker intercepts is
\* answered with a Response object under each strategy: when neither the
\* cache nor the network can supply one, the 503 offline response is
\* returned, never null or undefined.
C30_AlwaysAResponse ==
    (lastFetch # NoFetch /\ Intercepted(lastFetch.request)) =>
        /\ lastFetch.response \notin {"null", "undefined"}
        /\ (lastFetch.network = "rejects" /\ lastFetch.response # "cached")
               => lastFetch.response = "offline-503"

----------------------------------------------------------------------------
(* Specifications                                                          *)

InitCalibration == CalibrationIdle /\ QualityIdle /\ MeasurementIdle /\ CaptureIdle /\ HealingIdle /\ EngineIdle /\ ServiceWorkerIdle
SpecCalibration == InitCalibration /\ [][NextCalibration]_vars

InitQuality == CalibrationIdle /\ QualityConstructed /\ MeasurementIdle /\ CaptureIdle /\ HealingIdle /\ EngineIdle /\ ServiceWorkerIdle
SpecQuality == InitQuality /\ [][NextQuality]_vars

InitMeasurement == CalibrationIdle /\ QualityIdle /\ MeasurementIdle /\ CaptureIdle /\ HealingIdle /\ EngineIdle /\ ServiceWorkerIdle
SpecMeasurement == InitMeasurement /\ [][NextMeasurement]_vars

InitCapture == CalibrationIdle /\ QualityIdle /\ MeasurementIdle /\ CaptureIdle /\ HealingIdle /\ EngineIdle /\ ServiceWorkerIdle
SpecCapture == InitCapture /\ [][NextCapture]_vars

InitHealing == CalibrationIdle /\ QualityIdle /\ MeasurementIdle /\ CaptureIdle /\ HealingIdle /\ EngineIdle /\ ServiceWorkerIdle
SpecHealing == InitHealing /\ [][NextHealing]_vars

InitEngine == CalibrationIdle /\ QualityIdle /\ MeasurementIdle /\ CaptureIdle /\ HealingIdle /\ EngineIdle /\ ServiceWorkerIdle
SpecEngine == InitEngine /\ [][NextEngine]_vars

InitServiceWorker ==
    /\ CalibrationIdle /\ QualityIdle /\ MeasurementIdle /\ CaptureIdle /\ HealingIdle
    /\ EngineIdle /\ ServiceWorkerIdle
SpecServiceWorker == InitServiceWorker /\ [][NextServiceWorker]_vars

\* the browser runs every animation frame callback and every timer that is due
SpecCaptureLive == SpecCapture /\ WF_vars(LiveFrame) /\ WF_vars(LiveTimer)

====
